---- MODULE Spec2Model ----
(***************************************************************************)
(* The attendance calendar of the employee self-service app               *)
(* (AttendanceCalendar): the reconciliation of check-ins, attendance      *)
(* records and WFH/OD applications into one status per day, the calendar  *)
(* grid, the edit-window gate, the entry dialog and the entry submission. *)
(*                                                                         *)
(* Strings the code inspects character by character (the status of an     *)
(* attendance record, the entry time text) are tuples of one-character    *)
(* strings.  A date key "YYYY-MM-DD" is the tuple <<year, month, day>>    *)
(* (month 1..12), a check-in time "YYYY-MM-DD HH:MM:00" is the tuple      *)
(* <<year, month, day, hour, minute>>, and the empty tuple is the empty   *)
(* string or null.  A JavaScript Date is its instant, in minutes since    *)
(* 1970-01-01T00:00Z; its local fields depend on the device's timezone    *)
(* offset tz (minutes east of UTC).                                       *)
(***************************************************************************)
EXTENDS Integers, Sequences, FiniteSets, TLC

VARIABLES
    tz,               \* timezone offset of the device, minutes east of UTC
    now,              \* the instant new Date() returns
    server,           \* the lists the backend holds for the employee
    visible,          \* prop: the calendar modal is shown
    currentMonth,     \* prop: <<year, month>> with month 0..11
    monthlyRecords,   \* state: the fetched Employee Checkin rows
    processedData,    \* state: date key -> DayData
    wfhDates,         \* state: date keys covered by an approved WFH application
    odDates,          \* state: date keys covered by an approved OD application
    refreshing,       \* state: pull-to-refresh in progress
    showDialog,       \* state: the entry dialog is shown
    selectedDate,     \* state: date key of the tapped day, <<>> for null
    selectedDayData,  \* state: DayData of the tapped day, NoData for null
    entryTime,        \* state: the text of the time input
    isSubmitting,     \* state: an entry submission is running
    allowedLogType,   \* state: "IN", "OUT" or "null"
    batches,          \* the fetchMonthlyRecords calls in flight
    submission,       \* the handleSubmitEntry call in flight
    alerts,           \* the alerts raised and not yet dismissed
    reconciled,       \* the four fetched lists of the last reconciliation
    lastTap,          \* the day number of the last tap on a day cell, 0 for none
    nav,              \* the auth state and the route the root layout sees
    binding,          \* the backend's Employee device fields and its last login answer
    gatepass          \* the gatepass approval list, its reject modal and its calls

vars == <<tz, now, server, visible, currentMonth, monthlyRecords, processedData,
          wfhDates, odDates, refreshing, showDialog, selectedDate,
          selectedDayData, entryTime, isSubmitting, allowedLogType, batches,
          submission, alerts, reconciled, lastTap, nav, binding, gatepass>>

-----------------------------------------------------------------------------
(* Bounds of the model. *)

MaxRecords == 3
MaxBatches == 2
MaxAlerts == 1
MaxCreated == 1
MaxLogins == 2
MaxUpdates == 2
MaxRefetches == 2

-----------------------------------------------------------------------------
(* Program constants. *)

EDITABLE_DAYS == 7
MINUTES_PER_DAY == 1440

OPACITY_FULL == "80"
OPACITY_MEDIUM == "60"
OPACITY_LIGHT == "20"

-----------------------------------------------------------------------------
(* The calendar arithmetic of the JavaScript Date object. *)

\* Day number (days since 1970-01-01) of a proleptic Gregorian date.
DaysFromCivil(year, month, day) ==
    LET y == IF month <= 2 THEN year - 1 ELSE year
        era == y \div 400
        yoe == y - era * 400
        mp == IF month > 2 THEN month - 3 ELSE month + 9
        doy == (153 * mp + 2) \div 5 + day - 1
        doe == yoe * 365 + yoe \div 4 - yoe \div 100 + doy
    IN era * 146097 + doe - 719468

\* The date <<year, month, day>> of a day number.
CivilFromDays(days) ==
    LET z == days + 719468
        era == z \div 146097
        doe == z - era * 146097
        yoe == (doe - doe \div 1460 + doe \div 36524 - doe \div 146096) \div 365
        doy == doe - (365 * yoe + yoe \div 4 - yoe \div 100)
        mp == (5 * doy + 2) \div 153
        d == doy - (153 * mp + 2) \div 5 + 1
        m == IF mp < 10 THEN mp + 3 ELSE mp - 9
        y == yoe + era * 400 + (IF m <= 2 THEN 1 ELSE 0)
    IN <<y, m, d>>

\* new Date(year, month, day): local midnight; month is 0-based and both month
\* and day may overflow (day 0 is the last day of the month before).
DateOf(year, month, day, zone) ==
    (DaysFromCivil(year + month \div 12, (month % 12) + 1, 1) + day - 1)
        * MINUTES_PER_DAY - zone

\* new Date("YYYY-MM-DD"): a date-only string is midnight UTC.
DateParseKey(dateKey) ==
    DaysFromCivil(dateKey[1], dateKey[2], dateKey[3]) * MINUTES_PER_DAY

\* A time string parses when it is "YYYY-MM-DD HH:MM:00" with a time of day.
IsValidTime(time) ==
    /\ Len(time) = 5
    /\ time[4] \in 0..23
    /\ time[5] \in 0..59

\* new Date("YYYY-MM-DD HH:MM:00"): a date-time string without offset is local.
DateParseTime(time, zone) ==
    DaysFromCivil(time[1], time[2], time[3]) * MINUTES_PER_DAY
        + time[4] * 60 + time[5] - zone

\* The local day number of an instant.
LocalDay(date, zone) == (date + zone) \div MINUTES_PER_DAY

getFullYear(date, zone) == CivilFromDays(LocalDay(date, zone))[1]
getMonth(date, zone) == CivilFromDays(LocalDay(date, zone))[2] - 1
getDate(date, zone) == CivilFromDays(LocalDay(date, zone))[3]
getDay(date, zone) == (LocalDay(date, zone) + 4) % 7
getHours(date, zone) == ((date + zone) % MINUTES_PER_DAY) \div 60
getMinutes(date, zone) == ((date + zone) % MINUTES_PER_DAY) % 60

\* date.setHours(0, 0, 0, 0): local midnight of the instant's local day.
setHoursZero(date, zone) == LocalDay(date, zone) * MINUTES_PER_DAY - zone

\* date.setDate(date.getDate() + 1): the same local time, one day later.
addOneDay(date) == date + MINUTES_PER_DAY

\* date.toISOString().split('T')[0]: the UTC date of the instant.
toISODateKey(date) == CivilFromDays(date \div MINUTES_PER_DAY)

\* formatDateKey(year, month, day), month 0-based.
formatDateKey(year, month, day) == <<year, month + 1, day>>

-----------------------------------------------------------------------------
(* Strings. *)

UpperCase == <<"A", "B", "C", "D", "E", "F", "G", "H", "I", "J", "K", "L", "M",
               "N", "O", "P", "Q", "R", "S", "T", "U", "V", "W", "X", "Y", "Z">>
LowerCase == <<"a", "b", "c", "d", "e", "f", "g", "h", "i", "j", "k", "l", "m",
               "n", "o", "p", "q", "r", "s", "t", "u", "v", "w", "x", "y", "z">>
Digits == <<"0", "1", "2", "3", "4", "5", "6", "7", "8", "9">>
WhiteSpace == {" ", "\t"}

toLowerCaseChar(c) ==
    IF \E i \in 1..26 : UpperCase[i] = c
    THEN LowerCase[CHOOSE i \in 1..26 : UpperCase[i] = c]
    ELSE c

toUpperCaseChar(c) ==
    IF \E i \in 1..26 : LowerCase[i] = c
    THEN UpperCase[CHOOSE i \in 1..26 : LowerCase[i] = c]
    ELSE c

toLowerCase(s) == [i \in 1..Len(s) |-> toLowerCaseChar(s[i])]
toUpperCase(s) == [i \in 1..Len(s) |-> toUpperCaseChar(s[i])]

RECURSIVE SkipWhiteSpace(_)
SkipWhiteSpace(s) ==
    IF s # <<>> /\ Head(s) \in WhiteSpace THEN SkipWhiteSpace(Tail(s)) ELSE s

\* s.replace(/\s+/g, '_'): every run of whitespace becomes one underscore.
RECURSIVE replaceWhiteSpace(_)
replaceWhiteSpace(s) ==
    IF s = <<>> THEN <<>>
    ELSE IF Head(s) \in WhiteSpace
         THEN <<"_">> \o replaceWhiteSpace(SkipWhiteSpace(s))
         ELSE <<Head(s)>> \o replaceWhiteSpace(Tail(s))

S_on_leave == <<"o", "n", "_", "l", "e", "a", "v", "e">>
S_half_day == <<"h", "a", "l", "f", "_", "d", "a", "y">>
S_work_from_home ==
    <<"w", "o", "r", "k", "_", "f", "r", "o", "m", "_", "h", "o", "m", "e">>
S_present == <<"p", "r", "e", "s", "e", "n", "t">>
S_absent == <<"a", "b", "s", "e", "n", "t">>

-----------------------------------------------------------------------------
(* processAttendanceData. *)

NoData == [none |-> TRUE]

\* A fresh entry as it would be if WFH coverage set its status.
NewDayData_WfhStatus(dateKey, wfhDateSet, odDateSet) ==
    [date |-> dateKey, checkIns |-> <<>>, checkOuts |-> <<>>,
     status |-> IF dateKey \in wfhDateSet THEN "work_from_home" ELSE "absent",
     attendanceStatus |-> <<>>,
     isWFH |-> dateKey \in wfhDateSet, isOD |-> dateKey \in odDateSet]

\* A fresh DayData entry.
NewDayData(dateKey, wfhDateSet, odDateSet) ==
    [date |-> dateKey, checkIns |-> <<>>, checkOuts |-> <<>>,
     status |-> "absent", attendanceStatus |-> <<>>,
     isWFH |-> dateKey \in wfhDateSet, isOD |-> dateKey \in odDateSet]

\* dailyData with an entry for dateKey, created when missing.
WithEntry(dailyData, dateKey, wfhDateSet, odDateSet) ==
    IF dateKey \in DOMAIN dailyData THEN dailyData
    ELSE dailyData @@ (dateKey :> NewDayData(dateKey, wfhDateSet, odDateSet))

\* The status as it would be if an unrecognized status counted as present.
StatusOfRecord_UnknownIsPresent(status, previous) ==
    IF status = S_on_leave THEN "on_leave"
    ELSE IF status = S_half_day THEN "half_day"
    ELSE IF status = S_work_from_home THEN "work_from_home"
    ELSE IF status = S_absent THEN "absent"
    ELSE "present"

\* The status an attendance record sets, or the one the entry had.
StatusOfRecord(status, previous) ==
    IF status = S_on_leave THEN "on_leave"
    ELSE IF status = S_half_day THEN "half_day"
    ELSE IF status = S_work_from_home THEN "work_from_home"
    ELSE IF status = S_present THEN "present"
    ELSE IF status = S_absent THEN "absent"
    ELSE previous

\* The body of attendanceRecords.forEach.
AttendanceStep(dailyData, record, wfhDateSet, odDateSet) ==
    IF record.attendance_date = <<>> THEN dailyData
    ELSE LET dateKey == record.attendance_date
             seeded == WithEntry(dailyData, dateKey, wfhDateSet, odDateSet)
             status == replaceWhiteSpace(toLowerCase(record.status))
         IN [seeded EXCEPT ![dateKey] =
                [@ EXCEPT !.attendanceStatus = status,
                          !.status = StatusOfRecord(status, @)]]

\* The body of records.forEach as it would be if the times were put in front.
CheckinStep_Unshift(dailyData, record, wfhDateSet, odDateSet, zone) ==
    IF record.time = <<>> THEN dailyData
    ELSE IF ~IsValidTime(record.time) THEN dailyData
    ELSE LET dateKey == toISODateKey(DateParseTime(record.time, zone))
             seeded == WithEntry(dailyData, dateKey, wfhDateSet, odDateSet)
         IN IF record.log_type = "IN"
            THEN [seeded EXCEPT ![dateKey].checkIns = <<record.time>> \o @]
            ELSE IF record.log_type = "OUT"
            THEN [seeded EXCEPT ![dateKey].checkOuts = <<record.time>> \o @]
            ELSE seeded

\* The body of records.forEach.
CheckinStep(dailyData, record, wfhDateSet, odDateSet, zone) ==
    IF record.time = <<>> THEN dailyData
    ELSE IF ~IsValidTime(record.time) THEN dailyData
    ELSE LET dateKey == toISODateKey(DateParseTime(record.time, zone))
             seeded == WithEntry(dailyData, dateKey, wfhDateSet, odDateSet)
         IN IF record.log_type = "IN"
            THEN [seeded EXCEPT ![dateKey].checkIns = Append(@, record.time)]
            ELSE IF record.log_type = "OUT"
            THEN [seeded EXCEPT ![dateKey].checkOuts = Append(@, record.time)]
            ELSE seeded

RECURSIVE AttendancePass(_, _, _, _)
AttendancePass(dailyData, attendanceRecords, wfhDateSet, odDateSet) ==
    IF attendanceRecords = <<>> THEN dailyData
    ELSE AttendancePass(
             AttendanceStep(dailyData, Head(attendanceRecords), wfhDateSet, odDateSet),
             Tail(attendanceRecords), wfhDateSet, odDateSet)

RECURSIVE CheckinPass(_, _, _, _, _)
CheckinPass(dailyData, records, wfhDateSet, odDateSet, zone) ==
    IF records = <<>> THEN dailyData
    ELSE CheckinPass(
             CheckinStep(dailyData, Head(records), wfhDateSet, odDateSet, zone),
             Tail(records), wfhDateSet, odDateSet, zone)

\* FinalStatus as it would be if no attendance status had precedence.
FinalStatus_NoPrecedence(dayData) ==
    LET hasCheckIn == Len(dayData.checkIns) > 0
        hasCheckOut == Len(dayData.checkOuts) > 0
    IN IF hasCheckIn /\ hasCheckOut
       THEN IF Len(dayData.checkOuts) >= Len(dayData.checkIns)
            THEN "present" ELSE "incomplete"
       ELSE IF hasCheckIn \/ hasCheckOut THEN "incomplete"
       ELSE IF dayData.attendanceStatus = <<>> THEN "absent"
       ELSE dayData.status

\* FinalStatus as it would be if every attendance status had precedence.
FinalStatus_AllPrecedence(dayData) ==
    LET hasCheckIn == Len(dayData.checkIns) > 0
        hasCheckOut == Len(dayData.checkOuts) > 0
    IN IF dayData.attendanceStatus # <<>> THEN dayData.status
       ELSE IF hasCheckIn /\ hasCheckOut
            THEN IF Len(dayData.checkOuts) >= Len(dayData.checkIns)
                 THEN "present" ELSE "incomplete"
       ELSE IF hasCheckIn \/ hasCheckOut THEN "incomplete"
       ELSE "absent"

\* FinalStatus as it would be with a strict comparison of the two counts.
FinalStatus_StrictCount(dayData) ==
    LET hasCheckIn == Len(dayData.checkIns) > 0
        hasCheckOut == Len(dayData.checkOuts) > 0
    IN IF dayData.attendanceStatus # <<>>
          /\ dayData.attendanceStatus \in {S_on_leave, S_half_day, S_work_from_home}
       THEN dayData.status
       ELSE IF hasCheckIn /\ hasCheckOut
            THEN IF Len(dayData.checkOuts) > Len(dayData.checkIns)
                 THEN "present" ELSE "incomplete"
       ELSE IF hasCheckIn \/ hasCheckOut THEN "incomplete"
       ELSE IF dayData.attendanceStatus = <<>> THEN "absent"
       ELSE dayData.status

\* The body of Object.keys(dailyData).forEach: the final status of one day.
FinalStatus(dayData) ==
    LET hasCheckIn == Len(dayData.checkIns) > 0
        hasCheckOut == Len(dayData.checkOuts) > 0
    IN IF dayData.attendanceStatus # <<>>
          /\ dayData.attendanceStatus \in {S_on_leave, S_half_day, S_work_from_home}
       THEN dayData.status
       ELSE IF hasCheckIn /\ hasCheckOut
            THEN IF Len(dayData.checkOuts) >= Len(dayData.checkIns)
                 THEN "present" ELSE "incomplete"
       ELSE IF hasCheckIn /\ ~hasCheckOut THEN "incomplete"
       ELSE IF ~hasCheckIn /\ hasCheckOut THEN "incomplete"
       ELSE IF dayData.attendanceStatus = <<>> THEN "absent"
       ELSE dayData.status

processAttendanceData(records, attendanceRecords, wfhDateSet, odDateSet, zone) ==
    LET first == AttendancePass(<<>>, attendanceRecords, wfhDateSet, odDateSet)
        second == CheckinPass(first, records, wfhDateSet, odDateSet, zone)
    IN [dateKey \in DOMAIN second |->
           [second[dateKey] EXCEPT !.status = FinalStatus(second[dateKey])]]

-----------------------------------------------------------------------------
(* fetchMonthlyRecords. *)

Fetches == {"checkins", "attendance", "wfh", "od"}

Pending == [state |-> "pending", rows |-> <<>>]
Arrived(rows) == [state |-> "ok", rows |-> rows]

\* getMonthDateRange: the date keys of the first and the last day of the month.
getMonthDateRange(month, zone) ==
    LET startDate == DateOf(month[1], month[2], 1, zone)
        endDate == DateOf(month[1], month[2] + 1, 0, zone)
    IN [startDate |-> formatDateKey(getFullYear(startDate, zone),
                                    getMonth(startDate, zone),
                                    getDate(startDate, zone)),
        endDate |-> formatDateKey(getFullYear(endDate, zone),
                                  getMonth(endDate, zone),
                                  getDate(endDate, zone))]

KeyDay(dateKey) == DaysFromCivil(dateKey[1], dateKey[2], dateKey[3])

\* What the backend answers to one of the four getList calls: the check-ins
\* and the attendance records of the month's range, every approved application.
Response(fetch, month, zone) ==
    LET range == getMonthDateRange(month, zone)
        InRange(dateKey) == /\ KeyDay(range.startDate) <= KeyDay(dateKey)
                            /\ KeyDay(dateKey) <= KeyDay(range.endDate)
        CheckinInRange(row) == Len(row.time) < 3 \/ InRange(row.time)
        AttendanceInRange(row) ==
            row.attendance_date = <<>> \/ InRange(row.attendance_date)
    IN CASE fetch = "checkins" -> SelectSeq(server.checkins, CheckinInRange)
         [] fetch = "attendance" -> SelectSeq(server.attendance, AttendanceInRange)
         [] fetch = "wfh" -> server.wfh
         [] fetch = "od" -> server.od

\* The while loop over the days of one application.
RECURSIVE ExpandDates(_, _, _)
ExpandDates(currentDate, end, zone) ==
    IF currentDate <= end
    THEN {formatDateKey(getFullYear(currentDate, zone), getMonth(currentDate, zone),
                        getDate(currentDate, zone))}
             \cup ExpandDates(addOneDay(currentDate), end, zone)
    ELSE {}

\* The date set of a list of approved applications.
DateSetOf(applications, zone) ==
    UNION {ExpandDates(DateParseKey(applications[i].start_date),
                       DateParseKey(applications[i].end_date), zone) :
               i \in 1..Len(applications)}

NewBatch(month, origin) ==
    [month |-> month, origin |-> origin, res |-> [f \in Fetches |-> Pending]]

RemoveAt(s, i) == SubSeq(s, 1, i - 1) \o SubSeq(s, i + 1, Len(s))

\* No handleSubmitEntry call is running.  A running one is at its createDoc
\* await or at its refetch await; outstanding counts the createDoc calls sent
\* and not yet answered.
Idle ==
    [pc |-> "idle", text |-> <<>>, time24 |-> <<>>, time |-> <<>>,
     log_type |-> "null",
     month |-> <<>>, outstanding |-> 0]

NotReconciled == [none |-> TRUE]

\* fetchMonthlyRecords is called: the four getList calls are sent.
StartFetch(month, origin) ==
    /\ Len(batches) < MaxBatches
    /\ batches' = Append(batches, NewBatch(month, origin))

\* The caller's code as it would be if handleSubmitEntry had no finally block.
AfterFetch_NoFinally(origin) ==
    /\ refreshing' = IF origin = "refresh" THEN FALSE ELSE refreshing
    /\ isSubmitting' = isSubmitting
    /\ submission' = IF origin = "submit" THEN Idle ELSE submission

\* The caller's code after `await fetchMonthlyRecords()`.
AfterFetch(origin) ==
    /\ refreshing' = IF origin = "refresh" THEN FALSE ELSE refreshing
    /\ isSubmitting' = IF origin = "submit" THEN FALSE ELSE isSubmitting
    /\ submission' = IF origin = "submit" THEN Idle ELSE submission

\* The code after Promise.all as it would be if the answers for a month that
\* is no longer the current one were dropped.
FetchResolve_DropsStale(i, res) ==
    LET records == res["checkins"].rows
        attendanceRecords == res["attendance"].rows
        wfhDateSet == DateSetOf(res["wfh"].rows, tz)
        odDateSet == DateSetOf(res["od"].rows, tz)
    IN /\ IF batches[i].month = currentMonth
          THEN /\ wfhDates' = wfhDateSet
               /\ odDates' = odDateSet
               /\ monthlyRecords' = records
               /\ processedData' =
                      processAttendanceData(records, attendanceRecords,
                                            wfhDateSet, odDateSet, tz)
               /\ reconciled' = [records |-> records,
                                 attendanceRecords |-> attendanceRecords,
                                 wfhRecords |-> res["wfh"].rows,
                                 odRecords |-> res["od"].rows,
                                 month |-> batches[i].month]
          ELSE UNCHANGED <<wfhDates, odDates, monthlyRecords, processedData,
                           reconciled>>
       /\ batches' = RemoveAt(batches, i)
       /\ AfterFetch(batches[i].origin)
       /\ UNCHANGED alerts

\* The code after Promise.all resolved.
FetchResolve(i, res) ==
    LET records == res["checkins"].rows
        attendanceRecords == res["attendance"].rows
        wfhDateSet == DateSetOf(res["wfh"].rows, tz)
        odDateSet == DateSetOf(res["od"].rows, tz)
    IN /\ wfhDates' = wfhDateSet
       /\ odDates' = odDateSet
       /\ monthlyRecords' = records
       /\ processedData' = processAttendanceData(records, attendanceRecords,
                                                 wfhDateSet, odDateSet, tz)
       /\ reconciled' = [records |-> records,
                         attendanceRecords |-> attendanceRecords,
                         wfhRecords |-> res["wfh"].rows,
                         odRecords |-> res["od"].rows,
                         month |-> batches[i].month]
       /\ batches' = RemoveAt(batches, i)
       /\ AfterFetch(batches[i].origin)
       /\ UNCHANGED alerts

\* An answer as it would be if the reconciliation started as soon as the
\* check-ins and the attendance records were in.
FetchOk_ReconcilesEarly(i, fetch) ==
    /\ i \in 1..Len(batches)
    /\ batches[i].res[fetch] = Pending
    /\ LET res == [batches[i].res EXCEPT
                      ![fetch] = Arrived(Response(fetch, batches[i].month, tz))]
       IN IF res["checkins"].state = "ok" /\ res["attendance"].state = "ok"
          THEN FetchResolve(i, res)
          ELSE /\ batches' = [batches EXCEPT ![i].res = res]
               /\ UNCHANGED <<wfhDates, odDates, monthlyRecords, processedData,
                              reconciled, refreshing, isSubmitting, submission,
                              alerts>>
    /\ UNCHANGED <<gatepass, nav, binding, tz, now, server, visible, currentMonth, showDialog,
                   selectedDate, selectedDayData, entryTime, allowedLogType, lastTap>>

\* One getList call of batch i answers; the last answer resolves Promise.all.
FetchOk(i, fetch) ==
    /\ i \in 1..Len(batches)
    /\ batches[i].res[fetch] = Pending
    /\ LET res == [batches[i].res EXCEPT
                      ![fetch] = Arrived(Response(fetch, batches[i].month, tz))]
       IN IF \A f \in Fetches : res[f].state = "ok"
          THEN FetchResolve(i, res)
          ELSE /\ batches' = [batches EXCEPT ![i].res = res]
               /\ UNCHANGED <<wfhDates, odDates, monthlyRecords, processedData,
                              reconciled, refreshing, isSubmitting, submission,
                              alerts>>
    /\ UNCHANGED <<gatepass, nav, binding, tz, now, server, visible, currentMonth, showDialog,
                   selectedDate, selectedDayData, entryTime, allowedLogType, lastTap>>

\* A failure as it would be if the catch block cleared the calendar.
FetchFail_ClearsData(i, fetch) ==
    /\ i \in 1..Len(batches)
    /\ batches[i].res[fetch] = Pending
    /\ Len(alerts) < MaxAlerts
    /\ alerts' = Append(alerts, "fetch_failed")
    /\ batches' = RemoveAt(batches, i)
    /\ AfterFetch(batches[i].origin)
    /\ monthlyRecords' = <<>>
    /\ processedData' = <<>>
    /\ UNCHANGED <<gatepass, nav, binding, tz, now, server, visible, currentMonth, wfhDates, odDates,
                   showDialog, selectedDate, selectedDayData, entryTime,
                   allowedLogType, reconciled, lastTap>>

\* One getList call of batch i fails: Promise.all rejects and the catch block
\* raises the alert; the answers of the other calls are dropped.
FetchFail(i, fetch) ==
    /\ i \in 1..Len(batches)
    /\ batches[i].res[fetch] = Pending
    /\ Len(alerts) < MaxAlerts
    /\ alerts' = Append(alerts, "fetch_failed")
    /\ batches' = RemoveAt(batches, i)
    /\ AfterFetch(batches[i].origin)
    /\ UNCHANGED <<gatepass, nav, binding, tz, now, server, visible, currentMonth, monthlyRecords,
                   processedData, wfhDates, odDates, showDialog, selectedDate,
                   selectedDayData, entryTime, allowedLogType,
                   reconciled, lastTap>>

-----------------------------------------------------------------------------
(* Rendering: renderCalendarGrid and renderDayCell. *)

NullCell == [blank |-> TRUE]

DayInfo(day, dateKey, data) == [day |-> day, dateKey |-> dateKey, data |-> data]

\* Lookup as it would be if a day without an entry were given an absent one.
Lookup_DefaultAbsent(dateKey) ==
    IF dateKey \in DOMAIN processedData THEN processedData[dateKey]
    ELSE [date |-> dateKey, checkIns |-> <<>>, checkOuts |-> <<>>,
          status |-> "absent", attendanceStatus |-> <<>>,
          isWFH |-> dateKey \in wfhDates, isOD |-> dateKey \in odDates]

\* processedData[dateKey], NoData when undefined.
Lookup(dateKey) ==
    IF dateKey \in DOMAIN processedData THEN processedData[dateKey] ELSE NoData

\* The loop as it would be if a week were pushed as soon as it is full.
RECURSIVE DayLoop_PushWhenFull(_, _, _, _, _)
DayLoop_PushWhenFull(day, daysInMonth, month, weeks, currentWeek) ==
    IF day > daysInMonth THEN <<weeks, currentWeek>>
    ELSE LET dateKey == formatDateKey(month[1], month[2], day)
             cell == DayInfo(day, dateKey, Lookup(dateKey))
             week == Append(currentWeek, cell)
             full == Len(week) = 7
         IN DayLoop_PushWhenFull(day + 1, daysInMonth, month,
                                 IF full THEN Append(weeks, week) ELSE weeks,
                                 IF full THEN <<>> ELSE week)

\* The loop over the days of the month: <<weeks, currentWeek>> after it.
RECURSIVE DayLoop(_, _, _, _, _)
DayLoop(day, daysInMonth, month, weeks, currentWeek) ==
    IF day > daysInMonth THEN <<weeks, currentWeek>>
    ELSE LET full == Len(currentWeek) = 7
             dateKey == formatDateKey(month[1], month[2], day)
             cell == DayInfo(day, dateKey, Lookup(dateKey))
         IN DayLoop(day + 1, daysInMonth, month,
                    IF full THEN Append(weeks, currentWeek) ELSE weeks,
                    Append(IF full THEN <<>> ELSE currentWeek, cell))

\* The last week as it would be without the trailing blank cells.
PadWeek_Unpadded(week) == week

RECURSIVE PadWeek(_)
PadWeek(week) == IF Len(week) < 7 THEN PadWeek(Append(week, NullCell)) ELSE week

DaysInMonth(month, zone) == getDate(DateOf(month[1], month[2] + 1, 0, zone), zone)
StartingDayOfWeek(month, zone) == getDay(DateOf(month[1], month[2], 1, zone), zone)

renderCalendarGrid ==
    LET daysInMonth == DaysInMonth(currentMonth, tz)
        startingDayOfWeek == StartingDayOfWeek(currentMonth, tz)
        leading == [i \in 1..startingDayOfWeek |-> NullCell]
        looped == DayLoop(1, daysInMonth, currentMonth, <<>>, leading)
    IN Append(looped[1], PadWeek(looped[2]))

STATUS_COLORS ==
    [present |-> "#4CAF50", absent |-> "#F44336", on_leave |-> "#9C27B0",
     half_day |-> "#00BCD4", work_from_home |-> "#2196F3",
     incomplete |-> "#FFC107", default |-> "#E0E0E0", wfh |-> "#2196F3",
     od |-> "#FF9800"]

STATUS_TEXT ==
    [present |-> "P", absent |-> "A", on_leave |-> "L", half_day |-> "H",
     work_from_home |-> "W", incomplete |-> "I"]

getStatusColor(status) ==
    IF status \in DOMAIN STATUS_COLORS THEN STATUS_COLORS[status]
    ELSE STATUS_COLORS["default"]

getStatusText(status) ==
    IF status \in DOMAIN STATUS_TEXT THEN STATUS_TEXT[status] ELSE ""

Tint(color, opacity) == [color |-> color, opacity |-> opacity]
Badge(color, text) == [color |-> color, text |-> text]
NoBadge == [none |-> TRUE]

\* The background colour as it would be if every day with data had the
\* darkest tint.
BackgroundColor_AnyDataFull(dayInfo) ==
    LET data == dayInfo.data
        isToday == /\ getFullYear(now, tz) = currentMonth[1]
                   /\ getMonth(now, tz) = currentMonth[2]
                   /\ getDate(now, tz) = dayInfo.day
    IN IF data # NoData
       THEN Tint(getStatusColor(data.status), OPACITY_FULL)
       ELSE IF dayInfo.dateKey \in wfhDates
            THEN Tint(STATUS_COLORS["wfh"], OPACITY_LIGHT)
       ELSE IF dayInfo.dateKey \in odDates
            THEN Tint(STATUS_COLORS["od"], OPACITY_LIGHT)
       ELSE IF isToday THEN Tint("theme.primary", OPACITY_LIGHT)
       ELSE Tint("theme.card", "")

\* The background colour of a day cell.
BackgroundColor(dayInfo) ==
    LET data == dayInfo.data
        isToday == /\ getFullYear(now, tz) = currentMonth[1]
                   /\ getMonth(now, tz) = currentMonth[2]
                   /\ getDate(now, tz) = dayInfo.day
    IN IF data # NoData
       THEN LET hasCheckins == Len(data.checkIns) > 0 \/ Len(data.checkOuts) > 0
                hasAttendanceRecord == data.attendanceStatus # <<>>
            IN Tint(getStatusColor(data.status),
                    IF hasAttendanceRecord /\ hasCheckins
                    THEN OPACITY_FULL ELSE OPACITY_MEDIUM)
       ELSE IF dayInfo.dateKey \in wfhDates
            THEN Tint(STATUS_COLORS["wfh"], OPACITY_LIGHT)
       ELSE IF dayInfo.dateKey \in odDates
            THEN Tint(STATUS_COLORS["od"], OPACITY_LIGHT)
       ELSE IF isToday THEN Tint("theme.primary", OPACITY_LIGHT)
       ELSE Tint("theme.card", "")

\* The badge as it would be if the status of the day came before the flags.
StatusIndicator_StatusFirst(dayInfo) ==
    IF dayInfo.data # NoData
    THEN Badge(getStatusColor(dayInfo.data.status),
               getStatusText(dayInfo.data.status))
    ELSE IF dayInfo.dateKey \in wfhDates THEN Badge(STATUS_COLORS["wfh"], "W")
    ELSE IF dayInfo.dateKey \in odDates THEN Badge(STATUS_COLORS["od"], "O")
    ELSE NoBadge

\* The status indicator badge of a day cell.
StatusIndicator(dayInfo) ==
    IF dayInfo.dateKey \in wfhDates THEN Badge(STATUS_COLORS["wfh"], "W")
    ELSE IF dayInfo.dateKey \in odDates THEN Badge(STATUS_COLORS["od"], "O")
    ELSE IF dayInfo.data # NoData
         THEN Badge(getStatusColor(dayInfo.data.status),
                    getStatusText(dayInfo.data.status))
    ELSE NoBadge

\* What a cell of the grid shows.
renderDayCell(dayInfo) ==
    IF dayInfo = NullCell THEN [empty |-> TRUE]
    ELSE [day |-> dayInfo.day,
          backgroundColor |-> BackgroundColor(dayInfo),
          badge |-> StatusIndicator(dayInfo),
          data |-> dayInfo.data]

\* The day cells of the rendered grid, by day number.
DayCells ==
    LET weeks == renderCalendarGrid
    IN {weeks[w][c] : w \in 1..Len(weeks), c \in 1..7} \ {NullCell}

-----------------------------------------------------------------------------
(* The edit-window gate and the entry dialog. *)

Row(time, log_type) == [time |-> time, log_type |-> log_type]

\* Sort key of a time string ("time asc"); an empty time sorts first.
TimeKey(time) ==
    IF Len(time) = 5
    THEN DaysFromCivil(time[1], time[2], time[3]) * MINUTES_PER_DAY
             + time[4] * 60 + time[5]
    ELSE 0

\* isWithinLast7Days(dateKey).
isWithinLast7Days(dateKey) ==
    LET selected == setHoursZero(DateParseKey(dateKey), tz)
        today == setHoursZero(now, tz)
        diffTime == today - selected
        diffDays == diffTime \div MINUTES_PER_DAY
    IN diffDays >= 0 /\ diffDays <= EDITABLE_DAYS - 1

IsDigit(c) == \E i \in 1..10 : Digits[i] = c
DigitValue(c) == (CHOOSE i \in 1..10 : Digits[i] = c) - 1

\* String(n).padStart(2, '0') for n < 100.
Pad2(n) == <<Digits[(n \div 10) + 1], Digits[(n % 10) + 1]>>

\* parseInt(digits, 10).
RECURSIVE parseInt(_)
parseInt(digits) ==
    IF digits = <<>> THEN 0
    ELSE parseInt(SubSeq(digits, 1, Len(digits) - 1)) * 10
             + DigitValue(digits[Len(digits)])

NoMatch == <<>>

\* entryTime.match(/^(\d{1,2}):(\d{2})\s*(AM|PM)$/i): the three groups.
MatchEntryTime(text) ==
    LET colon == IF Len(text) >= 2 /\ text[2] = ":" THEN 2
                 ELSE IF Len(text) >= 3 /\ text[3] = ":" THEN 3 ELSE 0
        hour == SubSeq(text, 1, colon - 1)
        minute == SubSeq(text, colon + 1, colon + 2)
        period == SkipWhiteSpace(SubSeq(text, colon + 3, Len(text)))
    IN IF /\ colon > 0
          /\ \A i \in 1..Len(hour) : IsDigit(hour[i])
          /\ Len(minute) = 2
          /\ \A i \in 1..2 : IsDigit(minute[i])
          /\ toUpperCase(period) \in {<<"A", "M">>, <<"P", "M">>}
       THEN <<hour, minute, period>>
       ELSE NoMatch

\* The 24-hour hour as it would be if 12 AM were left alone.
Hours24_NoMidnight(match) ==
    LET hours == parseInt(match[1])
        period == toUpperCase(match[3])
    IN IF period = <<"P", "M">> /\ hours # 12 THEN hours + 12 ELSE hours

\* The 24-hour hour of a matched entry.
Hours24(match) ==
    LET hours == parseInt(match[1])
        period == toUpperCase(match[3])
    IN IF period = <<"P", "M">> /\ hours # 12 THEN hours + 12
       ELSE IF period = <<"A", "M">> /\ hours = 12 THEN 0
       ELSE hours

\* String(n) of a natural number.
RECURSIVE NumberToString(_)
NumberToString(n) ==
    IF n < 10 THEN <<Digits[n + 1]>>
    ELSE NumberToString(n \div 10) \o <<Digits[(n % 10) + 1]>>

\* s.padStart(2, '0').
RECURSIVE padStart2(_)
padStart2(s) == IF Len(s) < 2 THEN padStart2(<<"0">> \o s) ELSE s

\* `${String(hours).padStart(2, '0')}:${minutes}` of a matched entry.
time24(match) ==
    padStart2(NumberToString(Hours24(match))) \o <<":">> \o match[2]

\* `${selectedDate} ${time24}:00` of a matched entry.
Timestamp(dateKey, match) ==
    <<dateKey[1], dateKey[2], dateKey[3], Hours24(match), parseInt(match[2])>>

\* The default entry text: the current time in 12-hour form.
DefaultEntryTime ==
    LET hours == getHours(now, tz)
        minutes == getMinutes(now, tz)
        period == IF hours >= 12 THEN <<"P", "M">> ELSE <<"A", "M">>
        hours12 == IF hours % 12 = 0 THEN 12 ELSE hours % 12
    IN Pad2(hours12) \o <<":">> \o Pad2(minutes) \o <<" ">> \o period

\* The entry type the dialog allows for a day.
AllowedFor(dayData) ==
    LET hasCheckIn == dayData # NoData /\ Len(dayData.checkIns) > 0
        hasCheckOut == dayData # NoData /\ Len(dayData.checkOuts) > 0
    IN IF hasCheckIn /\ hasCheckOut THEN "null"
       ELSE IF hasCheckIn /\ ~hasCheckOut THEN "OUT"
       ELSE IF ~hasCheckIn /\ hasCheckOut THEN "IN"
       ELSE "IN"

\* The native alert covers the screen until it is dismissed.
Interactive == alerts = <<>>

\* The submit control as it would be without its disabled prop.
SubmitEnabled_WhileSubmitting == showDialog /\ allowedLogType # "null"

\* The submit control is rendered with an allowed type and disabled while
\* submitting.
SubmitEnabled == showDialog /\ allowedLogType # "null" /\ ~isSubmitting

\* The day cells the user taps: six days before 2024-03-15, the day after it
\* and the days that hold check events.
TapDays == {9, 12, 13, 14, 16}

\* The tap as it would be if the dialog opened on any day.
handleDayClick_NoGate(day) ==
    LET dateKey == formatDateKey(currentMonth[1], currentMonth[2], day)
        dayData == Lookup(dateKey)
    IN /\ visible /\ ~showDialog /\ Interactive
       /\ day \in TapDays
       /\ day \in 1..DaysInMonth(currentMonth, tz)
       /\ lastTap' = day
       /\ selectedDate' = dateKey
       /\ selectedDayData' = dayData
       /\ allowedLogType' = AllowedFor(dayData)
       /\ entryTime' = DefaultEntryTime
       /\ showDialog' = TRUE
       /\ UNCHANGED <<gatepass, nav, binding, tz, now, server, visible, currentMonth, monthlyRecords,
                      processedData, wfhDates, odDates, refreshing, isSubmitting,
                      batches, submission, alerts, reconciled>>

\* handleDayClick(day, dayData): a tap on a day cell of the grid.
handleDayClick(day) ==
    LET dateKey == formatDateKey(currentMonth[1], currentMonth[2], day)
        dayData == Lookup(dateKey)
    IN /\ visible /\ ~showDialog /\ Interactive
       /\ day \in TapDays
       /\ day \in 1..DaysInMonth(currentMonth, tz)
       /\ lastTap' = day
       /\ IF ~isWithinLast7Days(dateKey)
          THEN UNCHANGED <<selectedDate, selectedDayData, allowedLogType,
                           entryTime, showDialog>>
          ELSE /\ selectedDate' = dateKey
               /\ selectedDayData' = dayData
               /\ allowedLogType' = AllowedFor(dayData)
               /\ entryTime' = DefaultEntryTime
               /\ showDialog' = TRUE
       /\ UNCHANGED <<gatepass, nav, binding, tz, now, server, visible, currentMonth, monthlyRecords,
                      processedData, wfhDates, odDates, refreshing, isSubmitting,
                      batches, submission, alerts, reconciled>>

EntryTexts ==
    {<<>>,
     <<"2", "5", ":", "9", "9">>,
     <<"2", "5", ":", "9", "9", " ", "P", "M">>}

\* onChangeText of the time input, rendered when an entry type is allowed.
setEntryTime(text) ==
    /\ showDialog /\ allowedLogType # "null" /\ Interactive
    /\ text \in EntryTexts
    /\ entryTime # text
    /\ entryTime' = text
    /\ UNCHANGED <<gatepass, nav, binding, tz, now, server, visible, currentMonth, monthlyRecords,
                   processedData, wfhDates, odDates, refreshing, showDialog,
                   selectedDate, selectedDayData, isSubmitting, allowedLogType,
                   batches, submission, alerts, reconciled, lastTap>>

\* The close button, Cancel and onRequestClose of the dialog.
closeDialog ==
    /\ showDialog /\ Interactive
    /\ showDialog' = FALSE
    /\ UNCHANGED <<gatepass, nav, binding, tz, now, server, visible, currentMonth, monthlyRecords,
                   processedData, wfhDates, odDates, refreshing, selectedDate,
                   selectedDayData, entryTime, isSubmitting, allowedLogType,
                   batches, submission, alerts, reconciled, lastTap>>

\* What the backend holds when the calendar is first opened.
ServerSample ==
    [checkins |-> <<Row(<<2024, 2, 20, 9, 0>>, "IN"),
                    Row(<<2024, 3, 12, 18, 0>>, "OUT"),
                    Row(<<2024, 3, 13, 9, 0>>, "IN"),
                    Row(<<2024, 3, 13, 18, 0>>, "OUT"),
                    Row(<<2024, 3, 14, 9, 0>>, "IN")>>,
     attendance |-> <<[attendance_date |-> <<2024, 2, 21>>,
                       status |-> <<"P", "r", "e", "s", "e", "n", "t">>],
                      [attendance_date |-> <<2024, 3, 11>>,
                       status |-> <<"O", "n", " ", "L", "e", "a", "v", "e">>]>>,
     wfh |-> <<[start_date |-> <<2024, 3, 11>>, end_date |-> <<2024, 3, 12>>]>>,
     od |-> <<>>]

\* The check-ins the calendar has added to the backend.
Created == Len(server.checkins) - Len(ServerSample.checkins)

\* handleSubmitEntry up to its await: a press on the submit control.
handleSubmitEntry ==
    /\ SubmitEnabled /\ Interactive
    /\ IF entryTime = <<>> \/ selectedDate = <<>> \/ allowedLogType = "null"
       THEN /\ alerts' = Append(alerts, "invalid_entry")
            /\ UNCHANGED <<isSubmitting, submission>>
       ELSE IF MatchEntryTime(entryTime) = NoMatch
       THEN /\ alerts' = Append(alerts, "invalid_format")
            /\ UNCHANGED <<isSubmitting, submission>>
       ELSE /\ Created < MaxCreated
            /\ isSubmitting' = TRUE
            /\ submission' =
                   [pc |-> "createDoc",
                    text |-> entryTime,
                    time24 |-> time24(MatchEntryTime(entryTime)),
                    time |-> Timestamp(selectedDate, MatchEntryTime(entryTime)),
                    log_type |-> allowedLogType,
                    month |-> currentMonth,
                    outstanding |-> submission.outstanding + 1]
            /\ UNCHANGED alerts
    /\ UNCHANGED <<gatepass, nav, binding, tz, now, server, visible, currentMonth, monthlyRecords,
                   processedData, wfhDates, odDates, refreshing, showDialog,
                   selectedDate, selectedDayData, entryTime, allowedLogType,
                   batches, reconciled, lastTap>>

\* The rows of the backend with one more, in time order.
InsertRow(rows, row) ==
    LET before == SelectSeq(rows, LAMBDA r : TimeKey(r.time) <= TimeKey(row.time))
        after == SelectSeq(rows, LAMBDA r : TimeKey(r.time) > TimeKey(row.time))
    IN before \o <<row>> \o after

\* createDoc resolved: the dialog state is reset, the success alert is raised
\* and the month of the submitting render is fetched again.
createDocOk ==
    /\ submission.pc = "createDoc"
    /\ Len(alerts) < MaxAlerts
    /\ server' = [server EXCEPT
                     !.checkins = InsertRow(@, Row(submission.time,
                                                   submission.log_type))]
    /\ showDialog' = FALSE
    /\ entryTime' = <<>>
    /\ selectedDate' = <<>>
    /\ selectedDayData' = NoData
    /\ allowedLogType' = "null"
    /\ alerts' = Append(alerts, "created")
    /\ StartFetch(submission.month, "submit")
    /\ submission' = [submission EXCEPT !.pc = "refetch",
                                        !.outstanding = @ - 1]
    /\ UNCHANGED <<gatepass, nav, binding, tz, now, visible, currentMonth, monthlyRecords, processedData,
                   wfhDates, odDates, refreshing, isSubmitting,
                   reconciled, lastTap>>

\* A rejection as it would be if the catch block fetched the month again.
createDocFail_Refetches ==
    /\ submission.pc = "createDoc"
    /\ Len(alerts) < MaxAlerts
    /\ alerts' = Append(alerts, "create_failed")
    /\ StartFetch(submission.month, "submit")
    /\ submission' = [submission EXCEPT !.pc = "refetch",
                                        !.outstanding = @ - 1]
    /\ UNCHANGED <<gatepass, nav, binding, tz, now, server, visible, currentMonth, monthlyRecords,
                   processedData, wfhDates, odDates, refreshing, showDialog,
                   selectedDate, selectedDayData, entryTime, isSubmitting,
                   allowedLogType, reconciled, lastTap>>

\* A rejection as it would be if the dialog were reset before the await.
createDocFail_ResetsDialog ==
    /\ submission.pc = "createDoc"
    /\ Len(alerts) < MaxAlerts
    /\ alerts' = Append(alerts, "create_failed")
    /\ showDialog' = FALSE
    /\ entryTime' = <<>>
    /\ selectedDate' = <<>>
    /\ selectedDayData' = NoData
    /\ allowedLogType' = "null"
    /\ isSubmitting' = FALSE
    /\ submission' = Idle
    /\ UNCHANGED <<gatepass, nav, binding, tz, now, server, visible, currentMonth, monthlyRecords,
                   processedData, wfhDates, odDates, refreshing,
                   batches, reconciled, lastTap>>

\* createDoc rejected: the catch block raises the alert, finally re-enables.
createDocFail ==
    /\ submission.pc = "createDoc"
    /\ Len(alerts) < MaxAlerts
    /\ alerts' = Append(alerts, "create_failed")
    /\ isSubmitting' = FALSE
    /\ submission' = Idle
    /\ UNCHANGED <<gatepass, nav, binding, tz, now, server, visible, currentMonth, monthlyRecords,
                   processedData, wfhDates, odDates, refreshing, showDialog,
                   selectedDate, selectedDayData, entryTime, allowedLogType,
                   batches, reconciled, lastTap>>

\* The user dismisses the alert on top.
dismissAlert ==
    /\ alerts # <<>>
    /\ alerts' = Tail(alerts)
    /\ UNCHANGED <<gatepass, nav, binding, tz, now, server, visible, currentMonth, monthlyRecords,
                   processedData, wfhDates, odDates, refreshing, showDialog,
                   selectedDate, selectedDayData, entryTime, isSubmitting,
                   allowedLogType, batches, submission, reconciled,
                   lastTap>>

\* onRefresh: pull to refresh.
onRefresh ==
    /\ visible /\ ~showDialog /\ Interactive /\ ~refreshing
    /\ refreshing' = TRUE
    /\ StartFetch(currentMonth, "refresh")
    /\ UNCHANGED <<gatepass, nav, binding, tz, now, server, visible, currentMonth, monthlyRecords,
                   processedData, wfhDates, odDates, showDialog, selectedDate,
                   selectedDayData, entryTime, isSubmitting, allowedLogType,
                   submission, alerts, reconciled, lastTap>>

Months == {<<2024, 1>>, <<2024, 2>>}

\* The home screen opens the calendar on the month of today; the effect of the
\* component fetches.
openCalendar ==
    /\ ~visible /\ Interactive
    /\ visible' = TRUE
    /\ currentMonth' = <<getFullYear(now, tz), getMonth(now, tz)>>
    /\ StartFetch(currentMonth', "effect")
    /\ UNCHANGED <<gatepass, nav, binding, tz, now, server, monthlyRecords, processedData, wfhDates,
                   odDates, refreshing, showDialog, selectedDate, selectedDayData,
                   entryTime, isSubmitting, allowedLogType, submission, alerts, reconciled, lastTap>>

\* onClose of the calendar modal.
closeCalendar ==
    /\ visible /\ ~showDialog /\ Interactive
    /\ visible' = FALSE
    /\ UNCHANGED <<gatepass, nav, binding, tz, now, server, currentMonth, monthlyRecords, processedData,
                   wfhDates, odDates, refreshing, showDialog, selectedDate,
                   selectedDayData, entryTime, isSubmitting, allowedLogType,
                   batches, submission, alerts, reconciled, lastTap>>

\* The currentMonth prop changes; the effect fetches when the modal is shown.
setCurrentMonth(month) ==
    /\ month \in Months
    /\ month # currentMonth
    /\ currentMonth' = month
    /\ IF visible THEN StartFetch(month, "effect") ELSE UNCHANGED batches
    /\ UNCHANGED <<gatepass, nav, binding, tz, now, server, visible, monthlyRecords, processedData,
                   wfhDates, odDates, refreshing, showDialog, selectedDate,
                   selectedDayData, entryTime, isSubmitting, allowedLogType,
                   submission, alerts, reconciled, lastTap>>

-----------------------------------------------------------------------------
(* The root navigation guard (RootLayoutNav). *)

NoUser == [none |-> TRUE]

\* The values of useAuth().user: null, or a user with its reset flag.
Users == {NoUser} \cup {[require_password_reset |-> b] : b \in BOOLEAN}

LoginRoute == <<"(auth)", "LoginScreen">>
ResetRoute == <<"(auth)", "ResetPasswordScreen">>
TabsRoute == <<"(tabs)">>

\* The values of useSegments().
Routes ==
    {<<>>, LoginRoute, ResetRoute, TabsRoute,
     <<"(screens)", "ProfileDetailsScreen">>,
     <<"(screens)", "GatepassApplication">>}

\* segments[k - 1] of the code, "undefined" past the end.
Segment(segments, k) == IF Len(segments) >= k THEN segments[k] ELSE "undefined"

\* The app is mounted: the auth state is loading and the effect is due.
NavStart ==
    [loading |-> TRUE, isAuthenticated |-> FALSE, user |-> NoUser,
     segments |-> <<>>, effect |-> TRUE, last |-> "mount"]

\* The auth context publishes another state.
authChange(loading, isAuthenticated, user) ==
    /\ <<loading, isAuthenticated, user>>
           # <<nav.loading, nav.isAuthenticated, nav.user>>
    /\ nav' = [nav EXCEPT !.loading = loading,
                          !.isAuthenticated = isAuthenticated,
                          !.user = user,
                          !.effect = TRUE,
                          !.last = "auth"]
    /\ UNCHANGED <<gatepass, binding, tz, now, server, visible, currentMonth,
                   monthlyRecords, processedData, wfhDates, odDates, refreshing,
                   showDialog, selectedDate, selectedDayData, entryTime,
                   isSubmitting, allowedLogType, batches, submission, alerts,
                   reconciled, lastTap>>

\* The user or a screen moves to another route.
navigate(route) ==
    /\ route # nav.segments
    /\ nav' = [nav EXCEPT !.segments = route, !.effect = TRUE,
                          !.last = "navigate"]
    /\ UNCHANGED <<gatepass, binding, tz, now, server, visible, currentMonth,
                   monthlyRecords, processedData, wfhDates, odDates, refreshing,
                   showDialog, selectedDate, selectedDayData, entryTime,
                   isSubmitting, allowedLogType, batches, submission, alerts,
                   reconciled, lastTap>>

\* The target as it would be if authentication were checked before the reset.
GuardTarget_AuthFirst ==
    LET inAuthGroup == Segment(nav.segments, 1) = "(auth)"
        inTabsGroup == Segment(nav.segments, 1) = "(tabs)"
        inScreensGroup == Segment(nav.segments, 1) = "(screens)"
    IN IF nav.loading THEN nav.segments
       ELSE IF ~nav.isAuthenticated
       THEN IF ~inAuthGroup THEN LoginRoute ELSE nav.segments
       ELSE IF nav.user # NoUser /\ nav.user.require_password_reset
       THEN IF Segment(nav.segments, 2) # "ResetPasswordScreen"
            THEN ResetRoute ELSE nav.segments
       ELSE IF ~inTabsGroup /\ ~inScreensGroup THEN TabsRoute
       ELSE nav.segments

\* The route the effect replaces the current one with, the current one when
\* it does not navigate.
GuardTarget ==
    LET inAuthGroup == Segment(nav.segments, 1) = "(auth)"
        inTabsGroup == Segment(nav.segments, 1) = "(tabs)"
        inScreensGroup == Segment(nav.segments, 1) = "(screens)"
    IN IF nav.loading THEN nav.segments
       ELSE IF nav.user # NoUser /\ nav.user.require_password_reset
       THEN IF Segment(nav.segments, 2) # "ResetPasswordScreen"
            THEN ResetRoute ELSE nav.segments
       ELSE IF ~nav.isAuthenticated
       THEN IF ~inAuthGroup THEN LoginRoute ELSE nav.segments
       ELSE IF ~inTabsGroup /\ ~inScreensGroup THEN TabsRoute
       ELSE nav.segments

\* The effect of RootLayoutNav runs; a replaced route makes it due again.
RootLayoutNav ==
    /\ nav.effect
    /\ nav' = [nav EXCEPT !.segments = GuardTarget,
                          !.effect = (GuardTarget # nav.segments),
                          !.last = "guard"]
    /\ UNCHANGED <<gatepass, binding, tz, now, server, visible, currentMonth,
                   monthlyRecords, processedData, wfhDates, odDates, refreshing,
                   showDialog, selectedDate, selectedDayData, entryTime,
                   isSubmitting, allowedLogType, batches, submission, alerts,
                   reconciled, lastTap>>

NoBinding == [none |-> TRUE]

-----------------------------------------------------------------------------
(* The login of the backend (mobile_app_login) and the device binding. *)

\* The app IDs a login presents: two employees with ESS enabled, one with
\* ESS disabled and one that is no employee.
AppIds == {"A1", "A2", "A3", "A9"}

\* The Employee rows, by app_id.
Employees == {"A1", "A2", "A3"}

allow_ess(employee) == employee \in {"A1", "A2"}

\* The stored app_password of every employee.
stored_password == "secret"

Passwords == {"secret", "guess"}

\* The devices that log in: device_id, device_model, device_brand.
Devices ==
    {[device_id |-> "d1", device_model |-> "m1", device_brand |-> "b1"],
     [device_id |-> "d2", device_model |-> "m2", device_brand |-> "b2"]}

\* The device fields of an Employee row nobody has logged in to.
Unbound == [device_id |-> "", device_model |-> "", device_brand |-> ""]

\* No request of the backend has been answered yet.
NoAnswer == [none |-> TRUE]

\* The backend with no device registered and no login in progress.
BindingStart ==
    [employee |-> [e \in Employees |-> Unbound],
     requests |-> <<>>,
     answer |-> NoAnswer]

Failure(usr, device, message) ==
    [usr |-> usr, device_id |-> device.device_id, read |-> "",
     success |-> FALSE, message |-> message]

\* STEP 1 to STEP 3 of mobile_app_login: the Employee row is read, then ESS
\* and the password are checked.  A request that passes them goes on to the
\* device binding with the device_id it has read.
mobile_app_login(usr, app_password, device) ==
    /\ binding # NoBinding
    /\ IF usr \notin Employees
       THEN binding' = [binding EXCEPT
                !.answer = Failure(usr, device, "Invalid App ID")]
       ELSE IF ~allow_ess(usr)
       THEN binding' = [binding EXCEPT
                !.answer = Failure(usr, device, "ESS not enabled")]
       ELSE IF stored_password # app_password
       THEN binding' = [binding EXCEPT
                !.answer = Failure(usr, device, "Invalid password")]
       ELSE /\ Len(binding.requests) < MaxLogins
            /\ binding' = [binding EXCEPT
                    !.requests = Append(@,
                        [usr |-> usr, device |-> device,
                         read |-> binding.employee[usr].device_id])]
    /\ UNCHANGED <<gatepass, nav, tz, now, server, visible, currentMonth,
                   monthlyRecords, processedData, wfhDates, odDates, refreshing,
                   showDialog, selectedDate, selectedDayData, entryTime,
                   isSubmitting, allowedLogType, batches, submission, alerts,
                   reconciled, lastTap>>

\* The device binding as it would be if a login from another device took
\* the registration over.
DeviceBinding_TakesOver(request) ==
    [employee |-> [binding.employee EXCEPT ![request.usr] = request.device],
     answer |-> [usr |-> request.usr, device_id |-> request.device.device_id,
                 read |-> request.read, success |-> TRUE, message |-> ""]]

\* STEP 4 to STEP 7 of mobile_app_login for a request that has read the
\* Employee row: the Employee table and the answer.
DeviceBinding(request) ==
    IF request.read = ""
    THEN [employee |-> [binding.employee EXCEPT ![request.usr] = request.device],
          answer |-> [usr |-> request.usr,
                      device_id |-> request.device.device_id,
                      read |-> request.read, success |-> TRUE, message |-> ""]]
    ELSE IF request.read # request.device.device_id
    THEN [employee |-> binding.employee,
          answer |-> [usr |-> request.usr,
                      device_id |-> request.device.device_id,
                      read |-> request.read, success |-> FALSE,
                      message |-> "Wrong device"]]
    ELSE [employee |-> binding.employee,
          answer |-> [usr |-> request.usr,
                      device_id |-> request.device.device_id,
                      read |-> request.read, success |-> TRUE, message |-> ""]]

\* The i-th login in progress reaches the device binding and is answered.
mobile_app_login_bind(i) ==
    /\ binding # NoBinding
    /\ i \in 1..Len(binding.requests)
    /\ binding' = [employee |-> DeviceBinding(binding.requests[i]).employee,
                   requests |-> RemoveAt(binding.requests, i),
                   answer |-> DeviceBinding(binding.requests[i]).answer]
    /\ UNCHANGED <<gatepass, nav, tz, now, server, visible, currentMonth,
                   monthlyRecords, processedData, wfhDates, odDates, refreshing,
                   showDialog, selectedDate, selectedDayData, entryTime,
                   isSubmitting, allowedLogType, batches, submission, alerts,
                   reconciled, lastTap>>

\* An administrator resets the device registration of an employee.
reset_device(employee_id) ==
    /\ binding # NoBinding
    /\ binding.employee[employee_id].device_id # ""
    /\ binding' = [binding EXCEPT !.employee[employee_id].device_id = ""]
    /\ UNCHANGED <<gatepass, nav, tz, now, server, visible, currentMonth,
                   monthlyRecords, processedData, wfhDates, odDates, refreshing,
                   showDialog, selectedDate, selectedDayData, entryTime,
                   isSubmitting, allowedLogType, batches, submission, alerts,
                   reconciled, lastTap>>

-----------------------------------------------------------------------------
(* The gatepass approval list. *)

\* The gatepass applications of the approver's team.
ApplicationIds == {"GP-1", "GP-2", "GP-3"}

\* The applications as the backend holds them when the screen is mounted.
GatepassBackend ==
    [id \in ApplicationIds |->
        [approval_status |-> IF id = "GP-1" THEN "Pending"
                             ELSE IF id = "GP-2" THEN "Open" ELSE "Approved",
         reason_for_rejection |-> <<>>]]

\* The approval status of every application, as fetchApplications stores it.
Transformed(backend) == [id \in ApplicationIds |-> backend[id].approval_status]

\* The screen after its mount fetch: the state hooks of the reject modal, the
\* updateDoc calls and the fetchApplications calls in flight, and the alerts.
GatepassStart ==
    [backend |-> GatepassBackend,
     allApplications |-> Transformed(GatepassBackend),
     applicationsError |-> "null",
     showRejectModal |-> FALSE,
     rejectionReason |-> <<>>,
     applicationToReject |-> "null",
     updates |-> <<>>,
     fetching |-> 0,
     alerts |-> <<>>]

\* s.trim().
RECURSIVE trimEnd(_)
trimEnd(s) ==
    IF s # <<>> /\ s[Len(s)] \in WhiteSpace
    THEN trimEnd(SubSeq(s, 1, Len(s) - 1)) ELSE s

trim(s) == trimEnd(SkipWhiteSpace(s))

\* The reasons the approver types.
ReasonTexts ==
    {<<>>, <<" ", " ">>, <<"n", "o">>, <<" ", "n", "o", " ">>}

\* handleReject(application): the Reject button of a pending card.
handleReject(id) ==
    /\ ~gatepass.showRejectModal /\ gatepass.alerts = <<>>
    /\ gatepass.allApplications[id] \in {"Pending", "Open"}
    /\ gatepass' = [gatepass EXCEPT !.applicationToReject = id,
                                    !.rejectionReason = <<>>,
                                    !.showRejectModal = TRUE]
    /\ UNCHANGED <<nav, binding, tz, now, server, visible, currentMonth,
                   monthlyRecords, processedData, wfhDates, odDates, refreshing,
                   showDialog, selectedDate, selectedDayData, entryTime,
                   isSubmitting, allowedLogType, batches, submission, alerts,
                   reconciled, lastTap>>

\* onChangeText of the reason input.
setRejectionReason(text) ==
    /\ gatepass.showRejectModal /\ gatepass.alerts = <<>>
    /\ gatepass.rejectionReason # text
    /\ gatepass' = [gatepass EXCEPT !.rejectionReason = text]
    /\ UNCHANGED <<nav, binding, tz, now, server, visible, currentMonth,
                   monthlyRecords, processedData, wfhDates, odDates, refreshing,
                   showDialog, selectedDate, selectedDayData, entryTime,
                   isSubmitting, allowedLogType, batches, submission, alerts,
                   reconciled, lastTap>>

\* Cancel and onRequestClose of the reject modal.
closeRejectModal ==
    /\ gatepass.showRejectModal /\ gatepass.alerts = <<>>
    /\ gatepass' = [gatepass EXCEPT !.showRejectModal = FALSE]
    /\ UNCHANGED <<nav, binding, tz, now, server, visible, currentMonth,
                   monthlyRecords, processedData, wfhDates, odDates, refreshing,
                   showDialog, selectedDate, selectedDayData, entryTime,
                   isSubmitting, allowedLogType, batches, submission, alerts,
                   reconciled, lastTap>>

\* confirmReject up to its await: the Reject button of the modal.
confirmReject ==
    /\ gatepass.showRejectModal /\ gatepass.alerts = <<>>
    /\ IF gatepass.applicationToReject = "null"
       THEN UNCHANGED gatepass
       ELSE IF gatepass.rejectionReason = <<>>
               \/ trim(gatepass.rejectionReason) = <<>>
       THEN gatepass' = [gatepass EXCEPT
                            !.alerts = Append(@, "reason_required")]
       ELSE /\ Len(gatepass.updates) < MaxUpdates
            /\ gatepass' = [gatepass EXCEPT
                                !.updates =
                                    Append(@, [id |-> gatepass.applicationToReject,
                                               reason_for_rejection |->
                                                   trim(gatepass.rejectionReason)])]
    /\ UNCHANGED <<nav, binding, tz, now, server, visible, currentMonth,
                   monthlyRecords, processedData, wfhDates, odDates, refreshing,
                   showDialog, selectedDate, selectedDayData, entryTime,
                   isSubmitting, allowedLogType, batches, submission, alerts,
                   reconciled, lastTap>>

\* updateDoc resolved: the success alert, the modal is closed and reset and
\* fetchApplications is called.
updateDocOk(k) ==
    /\ k \in 1..Len(gatepass.updates)
    /\ Len(gatepass.alerts) < MaxAlerts
    /\ gatepass.fetching < MaxRefetches
    /\ gatepass' = [gatepass EXCEPT
                        !.backend[gatepass.updates[k].id] =
                            [approval_status |-> "Rejected",
                             reason_for_rejection |->
                                 gatepass.updates[k].reason_for_rejection],
                        !.updates = RemoveAt(@, k),
                        !.alerts = Append(@, "rejected"),
                        !.showRejectModal = FALSE,
                        !.applicationToReject = "null",
                        !.rejectionReason = <<>>,
                        !.applicationsError = "null",
                        !.fetching = @ + 1]
    /\ UNCHANGED <<nav, binding, tz, now, server, visible, currentMonth,
                   monthlyRecords, processedData, wfhDates, odDates, refreshing,
                   showDialog, selectedDate, selectedDayData, entryTime,
                   isSubmitting, allowedLogType, batches, submission, alerts,
                   reconciled, lastTap>>

\* The catch block as it would be if it closed the modal.
updateDocFail_ClosesModal(k) ==
    /\ k \in 1..Len(gatepass.updates)
    /\ Len(gatepass.alerts) < MaxAlerts
    /\ gatepass' = [gatepass EXCEPT !.updates = RemoveAt(@, k),
                                    !.alerts = Append(@, "reject_failed"),
                                    !.showRejectModal = FALSE]
    /\ UNCHANGED <<nav, binding, tz, now, server, visible, currentMonth,
                   monthlyRecords, processedData, wfhDates, odDates, refreshing,
                   showDialog, selectedDate, selectedDayData, entryTime,
                   isSubmitting, allowedLogType, batches, submission, alerts,
                   reconciled, lastTap>>

\* updateDoc rejected: the error alert and nothing else.
updateDocFail(k) ==
    /\ k \in 1..Len(gatepass.updates)
    /\ Len(gatepass.alerts) < MaxAlerts
    /\ gatepass' = [gatepass EXCEPT !.updates = RemoveAt(@, k),
                                    !.alerts = Append(@, "reject_failed")]
    /\ UNCHANGED <<nav, binding, tz, now, server, visible, currentMonth,
                   monthlyRecords, processedData, wfhDates, odDates, refreshing,
                   showDialog, selectedDate, selectedDayData, entryTime,
                   isSubmitting, allowedLogType, batches, submission, alerts,
                   reconciled, lastTap>>

\* A fetchApplications call answers: the applications are replaced.
fetchApplicationsOk ==
    /\ gatepass.fetching > 0
    /\ gatepass' = [gatepass EXCEPT
                        !.allApplications = Transformed(gatepass.backend),
                        !.fetching = @ - 1]
    /\ UNCHANGED <<nav, binding, tz, now, server, visible, currentMonth,
                   monthlyRecords, processedData, wfhDates, odDates, refreshing,
                   showDialog, selectedDate, selectedDayData, entryTime,
                   isSubmitting, allowedLogType, batches, submission, alerts,
                   reconciled, lastTap>>

\* A fetchApplications call fails: the error is set, the applications stay.
fetchApplicationsFail ==
    /\ gatepass.fetching > 0
    /\ gatepass' = [gatepass EXCEPT !.applicationsError = "failed",
                                    !.fetching = @ - 1]
    /\ UNCHANGED <<nav, binding, tz, now, server, visible, currentMonth,
                   monthlyRecords, processedData, wfhDates, odDates, refreshing,
                   showDialog, selectedDate, selectedDayData, entryTime,
                   isSubmitting, allowedLogType, batches, submission, alerts,
                   reconciled, lastTap>>

\* The approver dismisses the alert on top.
dismissGatepassAlert ==
    /\ gatepass.alerts # <<>>
    /\ gatepass' = [gatepass EXCEPT !.alerts = Tail(@)]
    /\ UNCHANGED <<nav, binding, tz, now, server, visible, currentMonth,
                   monthlyRecords, processedData, wfhDates, odDates, refreshing,
                   showDialog, selectedDate, selectedDayData, entryTime,
                   isSubmitting, allowedLogType, batches, submission, alerts,
                   reconciled, lastTap>>

-----------------------------------------------------------------------------
(* The reconciliation of every bounded answer of the backend. *)

CheckinSamples ==
    {Row(<<>>, "IN"), Row(<<2024, 3, 10, 99, 0>>, "IN")}
        \cup {Row(<<2024, 3, 10, h, 0>>, t) : h \in {2, 21}, t \in {"IN", "OUT"}}

CheckinLists ==
    {s \in UNION {[1..n -> CheckinSamples] : n \in 0..MaxRecords} :
        \A i \in 1..(Len(s) - 1) : TimeKey(s[i].time) <= TimeKey(s[i + 1].time)}

StatusSamples ==
    {<<"O", "n", " ", "L", "e", "a", "v", "e">>,
     <<"H", "a", "l", "f", " ", "D", "a", "y">>,
     <<"W", "o", "r", "k", " ", "F", "r", "o", "m", " ", "H", "o", "m", "e">>,
     <<"P", "r", "e", "s", "e", "n", "t">>,
     <<"A", "b", "s", "e", "n", "t">>,
     <<"H", "o", "l", "i", "d", "a", "y">>}

AttendanceSamples ==
    {[attendance_date |-> <<2024, 3, 10>>, status |-> s] : s \in StatusSamples}

\* The backend holds at most one submitted attendance record per date.
AttendanceLists == {<<>>} \cup {<<a>> : a \in AttendanceSamples}

Application(start, end) == [start_date |-> start, end_date |-> end]

WfhLists == {<<>>, <<Application(<<2024, 3, 9>>, <<2024, 3, 10>>)>>}
OdLists == {<<>>, <<Application(<<2024, 3, 10>>, <<2024, 3, 11>>),
                    Application(<<2024, 3, 13>>, <<2024, 3, 12>>)>>}

TzOffsets == {-300, 0, 330}

\* 2024-03-15 10:30 local time.
NowAt(zone) == DateOf(2024, 2, 15, zone) + 10 * 60 + 30

\* The calendar shows March 2024, three answers are in, the check-ins are due.
InitReconcile ==
    /\ tz \in TzOffsets
    /\ now = NowAt(tz)
    /\ server \in [checkins : CheckinLists, attendance : AttendanceLists,
                   wfh : WfhLists, od : OdLists]
    /\ visible = TRUE
    /\ currentMonth = <<2024, 2>>
    /\ monthlyRecords = <<>>
    /\ processedData = <<>>
    /\ wfhDates = {}
    /\ odDates = {}
    /\ refreshing = FALSE
    /\ showDialog = FALSE
    /\ selectedDate = <<>>
    /\ selectedDayData = NoData
    /\ entryTime = <<>>
    /\ isSubmitting = FALSE
    /\ allowedLogType = "null"
    /\ batches = <<[NewBatch(currentMonth, "effect") EXCEPT
                       !.res = [f \in Fetches |->
                                   IF f = "checkins" THEN Pending
                                   ELSE Arrived(Response(f, currentMonth, tz))]]>>
    /\ submission = Idle
    /\ alerts = <<>>
    /\ reconciled = NotReconciled
    /\ lastTap = 0
    /\ nav = NavStart
    /\ binding = NoBinding
    /\ gatepass = GatepassStart

NextReconcile == \E i \in 1..MaxBatches, f \in Fetches : FetchOk(i, f)

SpecReconcile == InitReconcile /\ [][NextReconcile]_vars

-----------------------------------------------------------------------------
(* The calendar component. *)

\* UTC-5 and UTC+5:30.
DeviceOffsets == {-300, 330}

Init ==
    /\ tz \in DeviceOffsets
    /\ now = NowAt(tz)
    /\ server = ServerSample
    /\ visible = FALSE
    /\ currentMonth = <<getFullYear(now, tz), getMonth(now, tz)>>
    /\ monthlyRecords = <<>>
    /\ processedData = <<>>
    /\ wfhDates = {}
    /\ odDates = {}
    /\ refreshing = FALSE
    /\ showDialog = FALSE
    /\ selectedDate = <<>>
    /\ selectedDayData = NoData
    /\ entryTime = <<>>
    /\ isSubmitting = FALSE
    /\ allowedLogType = "null"
    /\ batches = <<>>
    /\ submission = Idle
    /\ alerts = <<>>
    /\ reconciled = NotReconciled
    /\ lastTap = 0
    /\ nav = NavStart
    /\ binding = NoBinding
    /\ gatepass = GatepassStart

\* The calendar is opened, closed, moved to another month and refreshed.
NextFetch ==
    \/ openCalendar
    \/ closeCalendar
    \/ \E month \in Months : setCurrentMonth(month)
    \/ onRefresh
    \/ \E i \in 1..MaxBatches, f \in Fetches : FetchOk(i, f)
    \/ \E i \in 1..MaxBatches, f \in Fetches : FetchFail(i, f)
    \/ dismissAlert

\* The getList calls in the order of the Promise.all array.
FetchOrder == <<"checkins", "attendance", "wfh", "od">>

\* The first call of batch i that has not answered.
NextDue(i) ==
    FetchOrder[CHOOSE k \in 1..4 :
                   /\ batches[i].res[FetchOrder[k]] = Pending
                   /\ \A j \in 1..(k - 1) : batches[i].res[FetchOrder[j]] # Pending]

\* The calendar is opened, days are tapped and entries are submitted; the
\* backend answers the calls of a batch in the order they were sent.
NextEntry ==
    \/ openCalendar
    \/ \E day \in TapDays : handleDayClick(day)
    \/ \E text \in EntryTexts : setEntryTime(text)
    \/ closeDialog
    \/ handleSubmitEntry
    \/ createDocOk
    \/ createDocFail
    \/ \E i \in 1..Len(batches) : FetchOk(i, NextDue(i))
    \/ \E i \in 1..Len(batches) : FetchFail(i, NextDue(i))
    \/ dismissAlert

Next == NextFetch \/ NextEntry

Spec == Init /\ [][Next]_vars

\* The component while no day is tapped.
SpecFetch == Init /\ [][NextFetch]_vars

\* The component while the calendar stays open on the month of today.
SpecEntry == Init /\ [][NextEntry]_vars

\* A call of batch i has not been answered.  FetchOk is enabled exactly then.
BatchPending(i) ==
    /\ i \in 1..Len(batches)
    /\ \E fetch \in Fetches : batches[i].res[fetch] = Pending

\* Batch i is answered: a step of FetchOk or FetchFail on it.
BatchAnswered(i) ==
    \E fetch \in Fetches : FetchOk(i, fetch) \/ FetchFail(i, fetch)

\* Every call to the backend is answered or fails in the end, and an alert
\* is dismissed in the end (the model holds at most MaxAlerts alerts, and an
\* answer that raises one waits for room).  The condition on the batches is
\* weak fairness of BatchAnswered(i), written with its enabling condition.
AnswersArrive ==
    /\ WF_vars(createDocOk \/ createDocFail)
    /\ \A i \in 1..MaxBatches :
           []<>(~BatchPending(i)) \/ []<><<BatchAnswered(i)>>_vars
    /\ WF_vars(dismissAlert)

\* The day before today, inside the edit window in every zone.
SubmitDay == 14

\* The calendar is opened, the day before today is tapped, the entry time is
\* typed and the entry is submitted.
NextSubmit ==
    \/ openCalendar
    \/ handleDayClick(SubmitDay)
    \/ \E text \in EntryTexts : setEntryTime(text)
    \/ closeDialog
    \/ handleSubmitEntry
    \/ createDocOk
    \/ createDocFail
    \/ \E i \in 1..Len(batches) : FetchOk(i, NextDue(i))
    \/ \E i \in 1..Len(batches) : FetchFail(i, NextDue(i))
    \/ dismissAlert

\* The submission of an entry with a backend that answers.
SpecSubmit == Init /\ [][NextSubmit]_vars /\ AnswersArrive

\* The hours 1..12 as they are typed, with and without a leading zero.
HourTexts ==
    {NumberToString(h) : h \in 1..12} \cup {padStart2(NumberToString(h)) : h \in 1..9}

\* The first, a middle and the last minute of the hour.
MinuteTexts == {<<"0", "0">>, <<"0", "7">>, <<"5", "9">>}

PeriodTexts == {<<"A", "M">>, <<"P", "M">>, <<"a", "m">>, <<"p", "m">>}

\* The 12-hour times the user types, with and without a space before the
\* period.
TwelveHourTexts ==
    {hour \o <<":">> \o minute \o space \o period :
         hour \in HourTexts, minute \in MinuteTexts,
         space \in {<<>>, <<" ">>}, period \in PeriodTexts}

\* The calendar shows March 2024 as the backend holds it, the day before
\* today was tapped and a 12-hour time was typed into the dialog.
InitConvert ==
    /\ tz \in DeviceOffsets
    /\ now = NowAt(tz)
    /\ server = ServerSample
    /\ visible = TRUE
    /\ currentMonth = <<getFullYear(now, tz), getMonth(now, tz)>>
    /\ monthlyRecords = Response("checkins", currentMonth, tz)
    /\ wfhDates = DateSetOf(Response("wfh", currentMonth, tz), tz)
    /\ odDates = DateSetOf(Response("od", currentMonth, tz), tz)
    /\ processedData =
           processAttendanceData(monthlyRecords,
                                 Response("attendance", currentMonth, tz),
                                 wfhDates, odDates, tz)
    /\ refreshing = FALSE
    /\ showDialog = TRUE
    /\ selectedDate = formatDateKey(currentMonth[1], currentMonth[2], SubmitDay)
    /\ selectedDayData = Lookup(selectedDate)
    /\ entryTime \in TwelveHourTexts
    /\ isSubmitting = FALSE
    /\ allowedLogType = AllowedFor(selectedDayData)
    /\ batches = <<>>
    /\ submission = Idle
    /\ alerts = <<>>
    /\ reconciled = [records |-> monthlyRecords,
                     attendanceRecords |->
                         Response("attendance", currentMonth, tz),
                     wfhRecords |-> Response("wfh", currentMonth, tz),
                     odRecords |-> Response("od", currentMonth, tz),
                     month |-> currentMonth]
    /\ lastTap = SubmitDay
    /\ nav = NavStart
    /\ binding = NoBinding
    /\ gatepass = GatepassStart

\* The typed time is submitted and the backend answers.
NextConvert ==
    \/ handleSubmitEntry
    \/ createDocOk
    \/ createDocFail
    \/ \E i \in 1..Len(batches) : FetchOk(i, NextDue(i))
    \/ \E i \in 1..Len(batches) : FetchFail(i, NextDue(i))
    \/ dismissAlert

\* The conversion of every 12-hour time to the submitted timestamp.
SpecConvert == InitConvert /\ [][NextConvert]_vars

\* The calendar is opened in any month of these years.
GridYears == 2020..2030

\* 10:30 local time on the 15th of a month.
ClockIn(year, month, zone) == DateOf(year, month, 15, zone) + 10 * 60 + 30

InitGrid ==
    /\ tz \in DeviceOffsets
    /\ now \in {ClockIn(year, month, tz) : year \in GridYears, month \in 0..11}
    /\ server = ServerSample
    /\ visible = FALSE
    /\ currentMonth = <<getFullYear(now, tz), getMonth(now, tz)>>
    /\ monthlyRecords = <<>>
    /\ processedData = <<>>
    /\ wfhDates = {}
    /\ odDates = {}
    /\ refreshing = FALSE
    /\ showDialog = FALSE
    /\ selectedDate = <<>>
    /\ selectedDayData = NoData
    /\ entryTime = <<>>
    /\ isSubmitting = FALSE
    /\ allowedLogType = "null"
    /\ batches = <<>>
    /\ submission = Idle
    /\ alerts = <<>>
    /\ reconciled = NotReconciled
    /\ lastTap = 0
    /\ nav = NavStart
    /\ binding = NoBinding
    /\ gatepass = GatepassStart

\* The calendar is opened and its first fetch answers or fails.
NextGrid ==
    \/ openCalendar
    \/ \E i \in 1..Len(batches) : FetchOk(i, NextDue(i))
    \/ \E i \in 1..Len(batches) : FetchFail(i, NextDue(i))
    \/ dismissAlert

\* The grid of the month the calendar is opened in.
SpecGrid == InitGrid /\ [][NextGrid]_vars

-----------------------------------------------------------------------------
(* The root layout. *)

\* The calendar is closed and nothing of it is in flight.
CalendarAtRest ==
    /\ tz \in DeviceOffsets
    /\ now = NowAt(tz)
    /\ server = ServerSample
    /\ visible = FALSE
    /\ currentMonth = <<getFullYear(now, tz), getMonth(now, tz)>>
    /\ monthlyRecords = <<>>
    /\ processedData = <<>>
    /\ wfhDates = {}
    /\ odDates = {}
    /\ refreshing = FALSE
    /\ showDialog = FALSE
    /\ selectedDate = <<>>
    /\ selectedDayData = NoData
    /\ entryTime = <<>>
    /\ isSubmitting = FALSE
    /\ allowedLogType = "null"
    /\ batches = <<>>
    /\ submission = Idle
    /\ alerts = <<>>
    /\ reconciled = NotReconciled
    /\ lastTap = 0

InitNav ==
    /\ CalendarAtRest
    /\ nav = NavStart
    /\ binding = NoBinding
    /\ gatepass = GatepassStart

NextNav ==
    \/ \E loading \in BOOLEAN, isAuthenticated \in BOOLEAN, user \in Users :
           authChange(loading, isAuthenticated, user)
    \/ \E route \in Routes : navigate(route)
    \/ RootLayoutNav

\* The navigation guard under every auth state and every route.
SpecNav == InitNav /\ [][NextNav]_vars

-----------------------------------------------------------------------------
(* The backend's login. *)

InitLogin ==
    /\ CalendarAtRest
    /\ nav = NavStart
    /\ binding = BindingStart
    /\ gatepass = GatepassStart

NextLogin ==
    \/ \E usr \in AppIds, app_password \in Passwords, device \in Devices :
           mobile_app_login(usr, app_password, device)
    \/ \E i \in 1..MaxLogins : mobile_app_login_bind(i)
    \/ \E employee_id \in Employees : reset_device(employee_id)

\* Logins from two devices, overlapping or one after the other, and resets.
SpecLogin == InitLogin /\ [][NextLogin]_vars

-----------------------------------------------------------------------------
(* The rejection of gatepass applications. *)

InitGatepass ==
    /\ CalendarAtRest
    /\ nav = NavStart
    /\ binding = NoBinding
    /\ gatepass = GatepassStart

NextGatepass ==
    \/ \E id \in ApplicationIds : handleReject(id)
    \/ \E text \in ReasonTexts : setRejectionReason(text)
    \/ closeRejectModal
    \/ confirmReject
    \/ \E k \in 1..MaxUpdates : updateDocOk(k)
    \/ \E k \in 1..MaxUpdates : updateDocFail(k)
    \/ fetchApplicationsOk
    \/ fetchApplicationsFail
    \/ dismissGatepassAlert

\* The approver rejects applications and the backend answers in any order.
SpecGatepass == InitGatepass /\ [][NextGatepass]_vars

-----------------------------------------------------------------------------
(* What the claims speak about, in terms of the lists that were reconciled. *)

Reconciled == reconciled # NotReconciled

\* The status name of a normalized attendance status.
StatusName(status) ==
    CASE status = S_on_leave -> "on_leave"
      [] status = S_half_day -> "half_day"
      [] status = S_work_from_home -> "work_from_home"
      [] status = S_present -> "present"
      [] status = S_absent -> "absent"
      [] OTHER -> "unrecognized"

Normalized(record) == replaceWhiteSpace(toLowerCase(record.status))

\* The attendance records of a date.
AttendanceOn(dateKey) ==
    {i \in 1..Len(reconciled.attendanceRecords) :
        reconciled.attendanceRecords[i].attendance_date = dateKey}

\* The check events of a given type that the reconciliation files under a date.
EventsOn(dateKey, log_type) ==
    {i \in 1..Len(reconciled.records) :
        /\ IsValidTime(reconciled.records[i].time)
        /\ reconciled.records[i].log_type = log_type
        /\ toISODateKey(DateParseTime(reconciled.records[i].time, tz)) = dateKey}

HasEvents(dateKey) == EventsOn(dateKey, "IN") \cup EventsOn(dateKey, "OUT") # {}

\* The status the check events of a date give.
DerivedStatus(dateKey) ==
    LET ins == Cardinality(EventsOn(dateKey, "IN"))
        outs == Cardinality(EventsOn(dateKey, "OUT"))
    IN IF ins > 0 /\ outs > 0 /\ outs >= ins THEN "present" ELSE "incomplete"

\* Every date key some fetched list or the viewed month mentions.
KnownDates ==
    {reconciled.attendanceRecords[i].attendance_date :
        i \in 1..Len(reconciled.attendanceRecords)}
    \cup {toISODateKey(DateParseTime(reconciled.records[i].time, tz)) :
             i \in {j \in 1..Len(reconciled.records) :
                       IsValidTime(reconciled.records[j].time)}}

StatusOn(dateKey) ==
    IF dateKey \in DOMAIN processedData THEN processedData[dateKey].status
    ELSE "none"

\* C1: a date with one attendance record whose normalized status is on_leave,
\* half_day or work_from_home resolves to that status, whatever check events
\* are filed under the date.
C1_LeaveStatusWins ==
    Reconciled =>
        \A dateKey \in KnownDates :
            \A i \in AttendanceOn(dateKey) :
                (/\ AttendanceOn(dateKey) = {i}
                 /\ Normalized(reconciled.attendanceRecords[i])
                        \in {S_on_leave, S_half_day, S_work_from_home})
                => StatusOn(dateKey)
                       = StatusName(Normalized(reconciled.attendanceRecords[i]))

C1_Witness ==
    /\ Reconciled
    /\ \E dateKey \in KnownDates :
          /\ Cardinality(AttendanceOn(dateKey)) = 1
          /\ \E i \in AttendanceOn(dateKey) :
                Normalized(reconciled.attendanceRecords[i]) = S_half_day
          /\ EventsOn(dateKey, "IN") # {}
          /\ EventsOn(dateKey, "OUT") # {}
          /\ StatusOn(dateKey) = "half_day"

C3_DerivedFromEvents ==
    Reconciled =>
        \A dateKey \in KnownDates :
            (AttendanceOn(dateKey) = {} /\ HasEvents(dateKey))
            => StatusOn(dateKey) = DerivedStatus(dateKey)

C3_Witness ==
    /\ Reconciled
    /\ \E a, b \in KnownDates :
          /\ AttendanceOn(a) = {} /\ AttendanceOn(b) = {}
          /\ Cardinality(EventsOn(a, "IN")) = 1
          /\ Cardinality(EventsOn(a, "OUT")) = 1
          /\ StatusOn(a) = "present"
          /\ Cardinality(EventsOn(b, "IN")) = 1
          /\ Cardinality(EventsOn(b, "OUT")) = 0
          /\ StatusOn(b) = "incomplete"

\* The days of the viewed month that nothing covers: no attendance record, no
\* check event filed under them, no WFH or OD application.
UncoveredCells ==
    LET known == KnownDates
        flagged == wfhDates \cup odDates
    IN {cell \in DayCells :
           cell.dateKey \notin known /\ cell.dateKey \notin flagged}

\* C4 as claimed: the cell of a day that nothing covers shows the status absent.
C4_UncoveredIsAbsent ==
    Reconciled =>
        \A cell \in UncoveredCells :
            LET shown == renderDayCell(cell)
            IN shown.data # NoData /\ shown.data.status = "absent"

\* C4 as amended: the cell of a day that nothing covers carries no day data: it
\* shows no status, no badge and no status tint (the card colour, or the
\* highlight of today).
C4_UncoveredIsBlank ==
    Reconciled =>
        \A cell \in UncoveredCells :
            LET shown == renderDayCell(cell)
            IN /\ shown.data = NoData
               /\ shown.badge = NoBadge
               /\ shown.backgroundColor
                      \in {Tint("theme.card", ""),
                           Tint("theme.primary", OPACITY_LIGHT)}

C4_Witness ==
    /\ Reconciled
    /\ DOMAIN processedData # {}
    /\ \E cell \in UncoveredCells :
          /\ cell.day = 12
          /\ renderDayCell(cell).badge = NoBadge
          /\ renderDayCell(cell).backgroundColor = Tint("theme.card", "")

-----------------------------------------------------------------------------
(* The edit window and the entry dialog. *)

\* The date key of a day of the viewed month.
KeyOfDay(day) == <<currentMonth[1], currentMonth[2] + 1, day>>

\* The local calendar day of today, in days since 1970-01-01.
Today == LocalDay(now, tz)

\* The trailing 7-calendar-day span, today included.
InEditWindow(dateKey) ==
    KeyDay(dateKey) >= Today - 6 /\ KeyDay(dateKey) <= Today

\* A step that is a tap on a day cell.
TappedOn(day) == lastTap' = day /\ lastTap # day

\* C5: the gate accepts a day of the viewed month exactly when the day lies
\* between today minus 6 calendar days and today, both inclusive.
C5_GateIsLastSevenDays ==
    \A day \in 1..DaysInMonth(currentMonth, tz) :
        isWithinLast7Days(KeyOfDay(day)) <=> InEditWindow(KeyOfDay(day))

\* C6: a tap on a day outside the trailing 7-day span changes none of
\* showDialog, selectedDate, selectedDayData, allowedLogType and entryTime and
\* raises no alert.
C6_OutsideTapIsNoOp ==
    [][\A day \in TapDays :
          (TappedOn(day) /\ ~InEditWindow(KeyOfDay(day)))
          => UNCHANGED <<showDialog, selectedDate, selectedDayData,
                         allowedLogType, entryTime, alerts>>]_vars

\* C7: a tap on a day inside the trailing 7-day span opens the dialog on that
\* day with entry type IN when the day has no check-in, OUT when it has a
\* check-in and no check-out, and no entry type and no submit control when it
\* has both.
C7_InsideTapOpensDialog ==
    [][\A day \in TapDays :
          LET dateKey == KeyOfDay(day)
              known == dateKey \in DOMAIN processedData
              hasCheckIn == known /\ processedData[dateKey].checkIns # <<>>
              hasCheckOut == known /\ processedData[dateKey].checkOuts # <<>>
          IN (TappedOn(day) /\ InEditWindow(dateKey))
             => /\ showDialog'
                /\ selectedDate' = dateKey
                /\ allowedLogType' = IF ~hasCheckIn THEN "IN"
                                     ELSE IF ~hasCheckOut THEN "OUT"
                                     ELSE "null"
                /\ (allowedLogType' = "null" => ~SubmitEnabled')]_vars

\* A text of the form H:MM or HH:MM, AM or PM, with an hour of 1..12 and a
\* minute of 0..59.
IsTwelveHourTime(text) ==
    LET match == MatchEntryTime(text)
    IN /\ match # NoMatch
       /\ parseInt(match[1]) \in 1..12
       /\ parseInt(match[2]) \in 0..59

\* C8: a createDoc call is in flight only for an entered text that is a
\* 12-hour time.
C8_CreateDocOnlyForTwelveHourTime ==
    submission.pc = "createDoc" => IsTwelveHourTime(submission.text)

-----------------------------------------------------------------------------
(* The calendar grid. *)

\* The cells of the grid, row after row.
RECURSIVE Flatten(_)
Flatten(weeks) ==
    IF weeks = <<>> THEN <<>> ELSE Head(weeks) \o Flatten(Tail(weeks))

\* The civil month after <<year, month>>, month 0..11.
MonthAfter(month) ==
    IF month[2] = 11 THEN <<month[1] + 1, 0>> ELSE <<month[1], month[2] + 1>>

\* The number of days and the weekday of the 1st (0 = Sunday) of the viewed
\* month, from the civil calendar.
CivilDays ==
    DaysFromCivil(MonthAfter(currentMonth)[1], MonthAfter(currentMonth)[2] + 1, 1)
        - DaysFromCivil(currentMonth[1], currentMonth[2] + 1, 1)
CivilWeekday ==
    (DaysFromCivil(currentMonth[1], currentMonth[2] + 1, 1) + 4) % 7

\* C9: the grid of the viewed month is made of rows of 7 cells; as many blank
\* cells as the weekday index of the 1st come first, then the days 1 to the
\* last of the month, once each, in order, with their own date key, then only
\* blank cells; a month of 31 days that starts on a Saturday has 6 rows and 6
\* leading blanks.
C9_GridShape ==
    LET weeks == renderCalendarGrid
        cells == Flatten(weeks)
    IN /\ \A w \in 1..Len(weeks) : Len(weeks[w]) = 7
       /\ Len(cells) >= CivilWeekday + CivilDays
       /\ \A k \in 1..Len(cells) :
             IF k <= CivilWeekday \/ k > CivilWeekday + CivilDays
             THEN cells[k] = NullCell
             ELSE /\ cells[k] # NullCell
                  /\ cells[k].day = k - CivilWeekday
                  /\ cells[k].dateKey = KeyOfDay(k - CivilWeekday)
       /\ (CivilDays = 31 /\ CivilWeekday = 6) => Len(weeks) = 6

\* January 2022 is shown with its fetched data: 31 days from a Saturday.
C9_Witness ==
    /\ visible /\ Reconciled
    /\ currentMonth = <<2022, 0>>
    /\ CivilDays = 31 /\ CivilWeekday = 6
    /\ Len(renderCalendarGrid) = 6
    /\ \A c \in 1..6 : renderCalendarGrid[1][c] = NullCell
    /\ renderCalendarGrid[1][7].day = 1
    /\ renderCalendarGrid[6][2].day = 31
    /\ renderCalendarGrid[6][3] = NullCell

-----------------------------------------------------------------------------
(* The failure of a fetch. *)

\* The calls of a batch that have not answered.
PendingOf(batch) == {f \in Fetches : batch.res[f] = Pending}

\* C10: a batch of fetches ends without an alert only when its last call
\* answers; when it ends because one of its four calls fails, processedData,
\* wfhDates, odDates and monthlyRecords keep their values and exactly one
\* alert, the fetch failure alert, is raised.
C10_FailedFetchKeepsState ==
    [][\A i \in 1..Len(batches) :
          (batches' = RemoveAt(batches, i))
          => IF alerts' = alerts
             THEN Cardinality(PendingOf(batches[i])) = 1
             ELSE /\ alerts' = Append(alerts, "fetch_failed")
                  /\ UNCHANGED <<processedData, wfhDates, odDates,
                                 monthlyRecords>>]_vars

\* A refresh failed after the month was loaded: the loaded data is still there.
C10_Witness ==
    /\ alerts = <<"fetch_failed">>
    /\ batches = <<>>
    /\ ~refreshing
    /\ Reconciled
    /\ DOMAIN processedData # {}
    /\ monthlyRecords = reconciled.records

-----------------------------------------------------------------------------
(* The submission of an entry. *)

\* A step in which the outstanding createDoc call is answered.
CreateDocAnswered == submission.pc = "createDoc" /\ submission'.pc # "createDoc"

\* The answer was a success: the backend holds one more check-in.
CreateDocSucceeded == CreateDocAnswered /\ server' # server

\* A fetch of the whole month started by the submission: its four calls sent,
\* none answered.
SubmitBatch(month) ==
    [month |-> month, origin |-> "submit", res |-> [f \in Fetches |-> Pending]]

\* C11: when createDoc succeeds the submission starts one fetch of the four
\* lists of its month; when createDoc fails the fetches in flight stay as they
\* are; and no other step starts a fetch on behalf of a submission.
C11_RefetchIffCreated ==
    [][/\ CreateDocAnswered
          => IF server' # server
             THEN batches' = Append(batches, SubmitBatch(submission.month))
             ELSE batches' = batches
       /\ (/\ Len(batches') > Len(batches)
           /\ batches'[Len(batches')].origin = "submit")
          => CreateDocSucceeded]_vars

\* The created check-in is on the backend and the refetch is in flight.
C11_Witness ==
    /\ submission.pc = "refetch"
    /\ Created = 1
    /\ \E i \in 1..Len(batches) : batches[i].origin = "submit"
    /\ ~showDialog

\* C12: at most one createDoc call is outstanding, and while a submission runs
\* isSubmitting is set and the submit control cannot be pressed.
C12_OneCreateDocOutstanding ==
    /\ submission.outstanding <= 1
    /\ (submission.pc = "createDoc") = (submission.outstanding = 1)
    /\ submission.pc # "idle" => (isSubmitting /\ ~SubmitEnabled)

\* The dialog is on screen with an entry type while its createDoc call is
\* outstanding.
C12_Witness ==
    /\ submission.pc = "createDoc"
    /\ submission.outstanding = 1
    /\ showDialog /\ allowedLogType # "null" /\ Interactive
    /\ isSubmitting

-----------------------------------------------------------------------------
(* WFH and OD coverage. *)

\* The reconciliation of the fetched check-ins and attendance records with
\* other WFH and OD date sets.
ReconciledWith(wfhDateSet, odDateSet) ==
    processAttendanceData(reconciled.records, reconciled.attendanceRecords,
                          wfhDateSet, odDateSet, tz)

\* C13: the days that get an entry and the status of each are the same with
\* empty WFH and OD date sets and with sets that hold every date; the isWFH and
\* isOD flags of an entry are the membership of its date key in the two sets.
C13_CoverageOnlySetsFlags ==
    Reconciled =>
        LET none == ReconciledWith({}, {})
            all == ReconciledWith(DOMAIN processedData, DOMAIN processedData)
        IN /\ DOMAIN none = DOMAIN processedData
           /\ DOMAIN all = DOMAIN processedData
           /\ \A dateKey \in DOMAIN processedData :
                 /\ processedData[dateKey].status = none[dateKey].status
                 /\ processedData[dateKey].status = all[dateKey].status
                 /\ processedData[dateKey].isWFH = (dateKey \in wfhDates)
                 /\ processedData[dateKey].isOD = (dateKey \in odDates)
                 /\ ~none[dateKey].isWFH /\ ~none[dateKey].isOD
                 /\ all[dateKey].isWFH /\ all[dateKey].isOD

\* A day covered by a WFH and an OD application whose record says Holiday
\* stays absent, next to a day with a lone check event.
C13_Witness ==
    /\ Reconciled
    /\ \E covered, other \in DOMAIN processedData :
          /\ processedData[covered].isWFH /\ processedData[covered].isOD
          /\ processedData[covered].attendanceStatus
                 = <<"h", "o", "l", "i", "d", "a", "y">>
          /\ processedData[covered].status = "absent"
          /\ other # covered
          /\ processedData[other].status = "incomplete"

-----------------------------------------------------------------------------
(* The navigation guard. *)

\* A step of the effect of RootLayoutNav.
GuardRan == nav' # nav /\ nav'.last = "guard"

ResetRequired == nav.user # NoUser /\ nav.user.require_password_reset

-----------------------------------------------------------------------------
(* The device binding. *)

\* A login in progress reaches the device binding and is answered.
LoginAnswered ==
    /\ binding # NoBinding
    /\ Len(binding'.requests) < Len(binding.requests)

-----------------------------------------------------------------------------
(* The submit control. *)

\* C16: isSubmitting is true from the moment createDoc is called until the
\* submission ends, after the refetch that follows a success or right after a
\* failure, and every submission that started ends: the submit control is
\* enabled again.
C16_SubmitReenabled ==
    /\ [](isSubmitting <=> submission.pc # "idle")
    /\ (isSubmitting ~> ~isSubmitting)

\* A submission has succeeded, its refetch has ended and the control is
\* enabled again.
C16_Witness ==
    /\ Created = 1
    /\ submission = Idle
    /\ ~isSubmitting
    /\ batches = <<>>
    /\ Reconciled

-----------------------------------------------------------------------------
(* The rejection of an entry. *)

\* The outstanding createDoc call is rejected: nothing was created.
CreateDocRejected == CreateDocAnswered /\ server' = server

\* C17: when createDoc is rejected the calendar data (processedData, wfhDates,
\* odDates) and the dialog (showDialog, selectedDate, selectedDayData,
\* entryTime, allowedLogType) stay as they are, and the alert that names the
\* failed operation is raised.
C17_RejectionKeepsState ==
    [][CreateDocRejected =>
         /\ UNCHANGED <<processedData, wfhDates, odDates, showDialog,
                        selectedDate, selectedDayData, entryTime,
                        allowedLogType>>
         /\ alerts' = Append(alerts, "create_failed")]_vars

\* The rejection has just been reported and the dialog is still open with the
\* entry the user typed.
C17_Witness ==
    /\ alerts # <<>>
    /\ alerts[Len(alerts)] = "create_failed"
    /\ submission = Idle
    /\ ~isSubmitting
    /\ showDialog
    /\ entryTime # <<>>
    /\ selectedDate # <<>>
    /\ allowedLogType # "null"
    /\ Created = 0

-----------------------------------------------------------------------------
(* Fetches of more than one month in flight. *)

\* What fetchMonthlyRecords writes when the four lists of a month have
\* arrived from the backend as it is.
MonthData(month) ==
    LET records == Response("checkins", month, tz)
        attendanceRecords == Response("attendance", month, tz)
        wfhDateSet == DateSetOf(Response("wfh", month, tz), tz)
        odDateSet == DateSetOf(Response("od", month, tz), tz)
    IN [processedData |-> processAttendanceData(records, attendanceRecords,
                                                wfhDateSet, odDateSet, tz),
        wfhDates |-> wfhDateSet,
        odDates |-> odDateSet]

\* The calendar data on screen.
ShownData ==
    [processedData |-> processedData, wfhDates |-> wfhDates,
     odDates |-> odDates]

\* C18: a change of the month leaves the batches in flight in flight, and a
\* batch whose four calls have answered writes the data of its own month
\* into processedData, wfhDates and odDates whatever the current month is: the
\* answers for an older month that arrive last replace those of the newer.
C18_StaleBatchIsWritten ==
    [][/\ currentMonth' # currentMonth =>
              /\ Len(batches') >= Len(batches)
              /\ SubSeq(batches', 1, Len(batches)) = batches
       /\ \A i \in 1..Len(batches) :
              (batches' = RemoveAt(batches, i) /\ alerts' = alerts) =>
                  /\ ShownData' = MonthData(batches[i].month)
                  /\ reconciled'.month = batches[i].month]_vars

\* The calendar shows the data of a month that is not the current one:
\* nothing is in flight and the last answers written were those of the month
\* that was left.
C18_Witness ==
    /\ visible
    /\ batches = <<>>
    /\ alerts = <<>>
    /\ Reconciled
    /\ reconciled.month # currentMonth
    /\ ShownData = MonthData(reconciled.month)
    /\ ShownData # MonthData(currentMonth)

-----------------------------------------------------------------------------
(* The four fetches of a batch. *)

\* The calendar data are written in this step.
DataWritten ==
    \/ ShownData' # ShownData
    \/ monthlyRecords' # monthlyRecords
    \/ reconciled' # reconciled

\* C19: the calendar data are written only in the step in which the last of
\* the four calls of a batch answers, never while a call of that batch is
\* pending; and what is written then is the reconciliation of the four lists
\* of the batch's month, whatever the order was in which the calls answered.
C19_ReconcileAfterAllFour ==
    [][/\ DataWritten =>
              \E i \in 1..Len(batches) :
                  /\ Cardinality(PendingOf(batches[i])) = 1
                  /\ batches' = RemoveAt(batches, i)
                  /\ alerts' = alerts
       /\ \A i \in 1..Len(batches) :
              (batches' = RemoveAt(batches, i) /\ alerts' = alerts) =>
                  /\ Cardinality(PendingOf(batches[i])) = 1
                  /\ ShownData' = MonthData(batches[i].month)
                  /\ monthlyRecords' = Response("checkins", batches[i].month, tz)]_vars

\* The four calls of a batch have answered and their reconciliation, with
\* days and WFH dates in it, is on screen.
C19_Witness ==
    /\ Reconciled
    /\ batches = <<>>
    /\ alerts = <<>>
    /\ reconciled.month = currentMonth
    /\ processedData # <<>>
    /\ wfhDates # {}
    /\ ShownData = MonthData(currentMonth)

-----------------------------------------------------------------------------
(* The day of a check event. *)

\* The date D of a check-in time "D hh:mm:00".
LocalDateOf(time) == <<time[1], time[2], time[3]>>

\* The check events of a day entry.
EventsOf(dayData) ==
    {dayData.checkIns[k] : k \in 1..Len(dayData.checkIns)}
        \cup {dayData.checkOuts[k] : k \in 1..Len(dayData.checkOuts)}

\* C20: every check event with a valid time is placed in the day entry whose
\* date key is the local calendar date of its timestamp, for every time of day
\* and every timezone offset of the device.
C20_BucketIsLocalDate ==
    Reconciled =>
        \A k \in 1..Len(reconciled.records) :
            LET record == reconciled.records[k]
            IN (/\ record.time # <<>>
                /\ IsValidTime(record.time)
                /\ record.log_type \in {"IN", "OUT"}) =>
                   /\ LocalDateOf(record.time) \in DOMAIN processedData
                   /\ record.time
                          \in EventsOf(processedData[LocalDateOf(record.time)])

-----------------------------------------------------------------------------
(* The days of a WFH or OD application. *)

\* The date keys of the calendar days from start to end, both included.
ClosedInterval(start, end) ==
    {CivilFromDays(d) :
        d \in DaysFromCivil(start[1], start[2], start[3])
                 ..DaysFromCivil(end[1], end[2], end[3])}

\* The date keys of the closed intervals of a list of applications.
IntervalKeys(applications) ==
    UNION {ClosedInterval(applications[i].start_date,
                          applications[i].end_date) :
               i \in 1..Len(applications)}

\* C21: the WFH set and the OD set hold exactly the date keys of the days
\* from the start date to the end date of every application, both included,
\* and nothing for an application whose start is after its end.
C21_ExpansionIsClosedInterval ==
    Reconciled =>
        /\ wfhDates = IntervalKeys(reconciled.wfhRecords)
        /\ odDates = IntervalKeys(reconciled.odRecords)

-----------------------------------------------------------------------------
(* The badge and the tint of a day cell. *)

\* The letter of the badge of a resolved status.
StatusLetter(status) ==
    CASE status = "present" -> "P"
      [] status = "absent" -> "A"
      [] status = "on_leave" -> "L"
      [] status = "half_day" -> "H"
      [] status = "work_from_home" -> "W"
      [] status = "incomplete" -> "I"

\* C22: the badge of a day cell is the WFH badge when its date is in the WFH
\* set, else the OD badge when its date is in the OD set, else the badge of
\* the resolved status when the day has data, else there is no badge.
C22_BadgePrecedence ==
    \A cell \in DayCells :
        LET badge == renderDayCell(cell).badge
        IN IF cell.dateKey \in wfhDates
           THEN badge = Badge(STATUS_COLORS["wfh"], "W")
           ELSE IF cell.dateKey \in odDates
           THEN badge = Badge(STATUS_COLORS["od"], "O")
           ELSE IF cell.data # NoData
           THEN /\ badge # NoBadge
                /\ badge.text = StatusLetter(cell.data.status)
                /\ badge.color = STATUS_COLORS[cell.data.status]
           ELSE badge = NoBadge

\* A day that has data, whose status is not work from home, and that is in
\* both sets shows the WFH badge.
C22_Witness ==
    \E cell \in DayCells :
        /\ cell.dateKey \in wfhDates \cap odDates
        /\ cell.data # NoData
        /\ cell.data.status # "work_from_home"
        /\ renderDayCell(cell).badge = Badge(STATUS_COLORS["wfh"], "W")

\* The fetched lists hold an attendance record of the date.
HasAttendanceRecord(dateKey) == Reconciled /\ AttendanceOn(dateKey) # {}

\* The reconciliation has filed a check event under the date.
HasCheckEvent(dateKey) == Reconciled /\ HasEvents(dateKey)

\* C23: the tint of a day cell is the darkest tier exactly when the day has
\* both an attendance record and a check event, the medium tier when it has
\* exactly one of the two, and the lightest tier in the WFH or OD colour when
\* it has neither and its date is in the WFH or OD set.
C23_TintTiers ==
    \A cell \in DayCells :
        LET tint == renderDayCell(cell).backgroundColor
            record == HasAttendanceRecord(cell.dateKey)
            event == HasCheckEvent(cell.dateKey)
        IN /\ (tint.opacity = OPACITY_FULL) <=> (record /\ event)
           /\ (record # event) => tint.opacity = OPACITY_MEDIUM
           /\ (~record /\ ~event /\ cell.dateKey \in wfhDates \cup odDates) =>
                  /\ tint.opacity = OPACITY_LIGHT
                  /\ tint.color = IF cell.dateKey \in wfhDates
                                  THEN STATUS_COLORS["wfh"]
                                  ELSE STATUS_COLORS["od"]

\* One grid shows the three tiers: a day with a record and an event, a day
\* with a record or an event only, and a day with neither in the WFH or OD
\* set.
C23_Witness ==
    /\ \E cell \in DayCells :
           /\ HasAttendanceRecord(cell.dateKey)
           /\ HasCheckEvent(cell.dateKey)
           /\ renderDayCell(cell).backgroundColor.opacity = OPACITY_FULL
    /\ \E cell \in DayCells :
           /\ ~HasAttendanceRecord(cell.dateKey)
           /\ HasCheckEvent(cell.dateKey)
           /\ renderDayCell(cell).backgroundColor.opacity = OPACITY_MEDIUM
    /\ \E cell \in DayCells :
           /\ ~HasAttendanceRecord(cell.dateKey)
           /\ ~HasCheckEvent(cell.dateKey)
           /\ cell.dateKey \in wfhDates \cup odDates
           /\ renderDayCell(cell).backgroundColor.opacity = OPACITY_LIGHT

-----------------------------------------------------------------------------
(* Attendance records with an unrecognized status. *)

\* The date has attendance records and the normalized status of each is none
\* of on_leave, half_day, work_from_home, present and absent.
OnlyUnrecognized(dateKey) ==
    /\ AttendanceOn(dateKey) # {}
    /\ \A i \in AttendanceOn(dateKey) :
           StatusName(Normalized(reconciled.attendanceRecords[i]))
               = "unrecognized"

\* C24: a date whose attendance record has an unrecognized status and under
\* which no check event is filed resolves to absent; the record is kept as
\* the attendance status of the day and no alert is raised.
C24_UnrecognizedIsAbsent ==
    Reconciled =>
        \A dateKey \in KnownDates :
            (OnlyUnrecognized(dateKey) /\ ~HasEvents(dateKey)) =>
                /\ StatusOn(dateKey) = "absent"
                /\ StatusName(processedData[dateKey].attendanceStatus)
                       = "unrecognized"
                /\ alerts = <<>>

\* A day whose one attendance record says Holiday and that has no check
\* event is absent.
C24_Witness ==
    /\ Reconciled
    /\ \E dateKey \in KnownDates :
          /\ Cardinality(AttendanceOn(dateKey)) = 1
          /\ OnlyUnrecognized(dateKey)
          /\ ~HasEvents(dateKey)
          /\ Len(reconciled.records) > 0
          /\ processedData[dateKey].attendanceStatus
                 = <<"h", "o", "l", "i", "d", "a", "y">>
          /\ processedData[dateKey].status = "absent"
          /\ dateKey \notin wfhDates \cup odDates

-----------------------------------------------------------------------------
(* The 12-hour to 24-hour conversion. *)

\* The hour of the day of hour h of the period AM or PM.
HourOfDay(h, period) ==
    IF period = <<"A", "M">> THEN (IF h = 12 THEN 0 ELSE h)
    ELSE (IF h = 12 THEN 12 ELSE h + 12)

\* C25: for every accepted 12-hour time with an hour h of 1..12 and a minute
\* of 00..59, the timestamp sent to createDoc is the selected date followed
\* by HH:mm, where HH is 00 for 12 AM, h for 1..11 AM, 12 for 12 PM and h + 12
\* for 1..11 PM, written with two digits, and mm is the minute as typed.
C25_TwelveToTwentyFour ==
    (submission.pc = "createDoc" /\ IsTwelveHourTime(submission.text)) =>
        LET match == MatchEntryTime(submission.text)
            HH == HourOfDay(parseInt(match[1]), toUpperCase(match[3]))
        IN /\ submission.time24 = Pad2(HH) \o <<":">> \o match[2]
           /\ submission.time = <<selectedDate[1], selectedDate[2],
                                  selectedDate[3], HH, parseInt(match[2])>>

\* 12:07 am is sent as 00:07 of the selected day.
C25_Witness ==
    /\ submission.pc = "createDoc"
    /\ submission.text = <<"1", "2", ":", "0", "7", " ", "a", "m">>
    /\ submission.time24 = <<"0", "0", ":", "0", "7">>
    /\ submission.time = <<2024, 3, 14, 0, 7>>

-----------------------------------------------------------------------------
(* The entries the calendar creates. *)

\* A step in which handleSubmitEntry sends its createDoc call.
CreateDocIssued == submission.pc # "createDoc" /\ submission'.pc = "createDoc"

\* The entry type of a day by the check events shown for it: none when it has
\* a check-in and a check-out, OUT when it has only a check-in, IN otherwise.
EntryTypeOf(dayData) ==
    LET checkIns == IF dayData = NoData THEN <<>> ELSE dayData.checkIns
        checkOuts == IF dayData = NoData THEN <<>> ELSE dayData.checkOuts
    IN IF checkIns # <<>> /\ checkOuts # <<>> THEN "null"
       ELSE IF checkIns # <<>> THEN "OUT"
       ELSE "IN"

\* C26: a createDoc call is sent only while a date is selected and an entry
\* type is allowed; the date it carries is the date of the last tap, which
\* passed the edit-window gate, and its log type is the entry type computed
\* from the day data of that tap; and the check-in the backend creates is the
\* one that was sent.
C26_CreatedEntryWasGated ==
    [][/\ CreateDocIssued
          => /\ showDialog
             /\ selectedDate # <<>>
             /\ allowedLogType # "null"
             /\ selectedDate = KeyOfDay(lastTap)
             /\ isWithinLast7Days(selectedDate)
             /\ LocalDateOf(submission'.time) = selectedDate
             /\ allowedLogType = EntryTypeOf(selectedDayData)
             /\ submission'.log_type = allowedLogType
       /\ CreateDocSucceeded
          => \E k \in 1..Len(server'.checkins) :
                 /\ server'.checkins[k] = Row(submission.time,
                                              submission.log_type)
                 /\ RemoveAt(server'.checkins, k) = server.checkins]_vars

\* A check-in for 2024-03-12, which had only a check-out, was created with
\* the default time.
C26_Witness ==
    /\ Created = 1
    /\ \E k \in 1..Len(server.checkins) :
           server.checkins[k] = Row(<<2024, 3, 12, 10, 30>>, "IN")

-----------------------------------------------------------------------------
(* The time of day of a submitted entry. *)

\* C27: every timestamp sent to createDoc carries an hour of 00..23 and a
\* minute of 00..59, whatever text was entered.
C27_TimestampIsTimeOfDay ==
    submission.pc = "createDoc" =>
        /\ Hours24(MatchEntryTime(submission.text)) \in 0..23
        /\ parseInt(MatchEntryTime(submission.text)[2]) \in 0..59
        /\ submission.time[4] \in 0..23
        /\ submission.time[5] \in 0..59

-----------------------------------------------------------------------------
(* The rows of the calendar grid. *)

\* The cells of a row that show a day.
DayCellsOf(week) == {c \in 1..Len(week) : week[c] # NullCell}

\* C28: no row of the grid is made only of blank cells; the number of rows is
\* the ceiling of (weekday index of the 1st + days in the month) / 7, which is
\* between 4 and 6; and the number of cells that show a day is the number of
\* days in the month, also when the last day of the month is a Saturday.
C28_NoBlankRow ==
    LET weeks == renderCalendarGrid
        total == CivilWeekday + CivilDays
    IN /\ \A w \in 1..Len(weeks) : DayCellsOf(weeks[w]) # {}
       /\ Len(weeks) = (total + 6) \div 7
       /\ Len(weeks) \in 4..6
       /\ Cardinality(DayCellsOf(Flatten(weeks))) = CivilDays

\* February 2026 is shown with its fetched data: 28 days from a Sunday to a
\* Saturday, in 4 full rows.
C28_Witness ==
    /\ visible /\ Reconciled
    /\ currentMonth = <<2026, 1>>
    /\ CivilWeekday = 0 /\ CivilDays = 28
    /\ Len(renderCalendarGrid) = 4
    /\ renderCalendarGrid[4][7] # NullCell
    /\ renderCalendarGrid[4][7].day = 28

-----------------------------------------------------------------------------
(* The conservation of check events. *)

\* The date key the reconciliation gives a record with a valid time.
DateKeyOf(record) == toISODateKey(DateParseTime(record.time, tz))

\* The times of the fetched records of a given type with a valid time and a
\* given date key, in the order they were fetched.
TimesOn(dateKey, log_type) ==
    LET kept == SelectSeq(reconciled.records,
                          LAMBDA r : /\ IsValidTime(r.time)
                                     /\ r.log_type = log_type
                                     /\ DateKeyOf(r) = dateKey)
    IN [i \in 1..Len(kept) |-> kept[i].time]

\* The date keys of the fetched records with a valid time.
CheckinKeys ==
    {DateKeyOf(reconciled.records[i]) :
         i \in {j \in 1..Len(reconciled.records) :
                    IsValidTime(reconciled.records[j].time)}}

\* C29: the checkIns and checkOuts of a day are the times of the IN and OUT
\* records with a valid time and the date key of that day, each once and in
\* input order; a record is in the sequences of no other day; and a record
\* with a missing or unparsable time is in no sequence and creates no day.
C29_CheckEventsConserved ==
    Reconciled =>
        /\ CheckinKeys \subseteq DOMAIN processedData
        /\ \A dateKey \in DOMAIN processedData :
               /\ processedData[dateKey].checkIns = TimesOn(dateKey, "IN")
               /\ processedData[dateKey].checkOuts = TimesOn(dateKey, "OUT")
               /\ dateKey \in CheckinKeys \/ AttendanceOn(dateKey) # {}

\* A record without a time and two check-ins of 2024-03-10 were fetched: the
\* day holds the two times in their order and is the only day.
C29_Witness ==
    /\ Reconciled
    /\ tz = 0
    /\ reconciled.records = <<Row(<<>>, "IN"),
                              Row(<<2024, 3, 10, 2, 0>>, "IN"),
                              Row(<<2024, 3, 10, 21, 0>>, "IN")>>
    /\ DOMAIN processedData = {<<2024, 3, 10>>}
    /\ processedData[<<2024, 3, 10>>].checkIns =
           <<(<<2024, 3, 10, 2, 0>>), (<<2024, 3, 10, 21, 0>>)>>
    /\ processedData[<<2024, 3, 10>>].checkOuts = <<>>

-----------------------------------------------------------------------------
(* The rejection of a gatepass application. *)

\* A step in which confirmReject sends its updateDoc call.
UpdateIssued == Len(gatepass'.updates) > Len(gatepass.updates)

\* A step in which an updateDoc call is answered, with the alert it raises.
UpdateAnswered(alert) ==
    /\ Len(gatepass'.updates) < Len(gatepass.updates)
    /\ gatepass'.alerts = Append(gatepass.alerts, alert)

\* A text with a character that is not whitespace.
NotBlank(text) == \E i \in 1..Len(text) : text[i] \notin WhiteSpace

\* C30: an updateDoc call is sent only while an application is selected and
\* the reason holds a character that is not whitespace; when the call succeeds
\* the modal is closed, the selection and the reason are cleared and one fetch
\* of the applications is started; when it fails the modal, the selection and
\* the reason stay as they are and no fetch is started; and an answer is one
\* or the other.
C30_RejectionHandling ==
    [][/\ UpdateIssued
          => /\ gatepass.applicationToReject # "null"
             /\ NotBlank(gatepass.rejectionReason)
       /\ UpdateAnswered("rejected")
          => /\ ~gatepass'.showRejectModal
             /\ gatepass'.applicationToReject = "null"
             /\ gatepass'.rejectionReason = <<>>
             /\ gatepass'.fetching = gatepass.fetching + 1
       /\ UpdateAnswered("reject_failed")
          => /\ gatepass'.showRejectModal = gatepass.showRejectModal
             /\ gatepass'.applicationToReject = gatepass.applicationToReject
             /\ gatepass'.rejectionReason = gatepass.rejectionReason
             /\ gatepass'.fetching = gatepass.fetching
             /\ gatepass'.backend = gatepass.backend
       /\ Len(gatepass'.updates) < Len(gatepass.updates)
          => UpdateAnswered("rejected") \/ UpdateAnswered("reject_failed")
       /\ gatepass'.alerts = Append(gatepass.alerts, "reason_required")
          => /\ ~NotBlank(gatepass.rejectionReason)
             /\ gatepass'.updates = gatepass.updates]_vars

\* The rejection of GP-1 failed: the modal is still open on GP-1 with its
\* reason, the error alert is shown and nothing is being fetched.
C30_Witness ==
    /\ gatepass.alerts = <<"reject_failed">>
    /\ gatepass.showRejectModal
    /\ gatepass.applicationToReject = "GP-1"
    /\ gatepass.rejectionReason = <<" ", "n", "o", " ">>
    /\ gatepass.updates = <<>>
    /\ gatepass.fetching = 0
    /\ gatepass.backend = GatepassBackend

====
